---- MODULE Spec2Model ----
(***************************************************************************)
(* A model of crag (code-rag-golang): the SQLite entity store, the graph   *)
(* builder with closure merging, the recursive upstream/downstream         *)
(* queries, the call-tree builder, the analyze command (full and           *)
(* incremental), the file watcher, impact analysis, risk scoring and the   *)
(* call-chain tree of the web server.                                      *)
(*                                                                         *)
(* One module, several specifications over the same variables; each        *)
(* specification drives one part of the program and leaves the other       *)
(* variables at their initial value.                                       *)
(*   SpecStore    the storage API called directly                          *)
(*   SpecQuery    GetUpstreamCallers / GetDownstreamCallees                *)
(*   SpecTree     GetUpstreamCallTree / GetDownstreamCallTree              *)
(*   SpecWatch    the file watcher                                         *)
(*   SpecBuild    the builder on a new database                            *)
(*   SpecAnalyze  the analyze command, full and incremental                *)
(*   SpecImpact   AnalyzeImpact                                            *)
(*   SpecRisk     GetRiskScore                                             *)
(*   SpecChain    the store's tree builder and handleCallChain             *)
(*   SpecLookup     GetNodeByName / FindNodesByPattern                      *)
(*   SpecIngest     Build, BuildInterfaceGraph, BuildVarConstGraph          *)
(*   SpecRoundTrip  InsertNode and GetNodeByID                              *)
(*   SpecKinds      the recursive queries on edges of all kinds             *)
(*   SpecWatchStop  the watcher from Start to Stop, with fairness           *)
(*   SpecRebuild    runAnalysis with a reader beside it                     *)
(*   SpecConvert    changed directories to package paths                    *)
(*   SpecTop        GetTopRiskyFunctions                                    *)
(***************************************************************************)
EXTENDS Integers, Sequences, FiniteSets, Bags, TLC

VARIABLES
    nodes,      \* rows of table nodes: [id, kind, name, pkg]
    edges,      \* rows of table edges: [id, from, to, kind]
    last,       \* the last API call made and what it returned
    cte,        \* a running GetUpstreamCallers / GetDownstreamCallees query
    tree,       \* a running GetUpstreamCallTree / GetDownstreamCallTree call
    watch,      \* the Watcher: pending files, debounce timer, analysis goroutines
    proj,       \* the analyzed project: its call graph at the git base and now
    report      \* a running or returned AnalyzeImpact, GetRiskScore or handleCallChain call

vars == <<nodes, edges, last, cte, tree, watch, proj, report>>

\* no API call made yet, no call tree being built
NoCall == [op |-> "Open", pkgs |-> {}, from |-> 0, to |-> 0, id |-> 0, err |-> FALSE,
           incremental |-> FALSE, fallback |-> FALSE]
NoWatch == [pendingFiles |-> {}, timer |-> "none", sinceReset |-> 0, events |-> 0,
            locking |-> 0, running |-> 0, runs |-> EmptyBag]
NoGraph == [fns |-> {}, calls |-> {}]
NoProj == [base |-> NoGraph, cg |-> NoGraph]
NoReport == [op |-> "none", pc |-> "none", funcName |-> <<>>, upstreamDepth |-> 0,
             downstreamDepth |-> 0, outcome |-> "none", candidates |-> <<>>, target |-> 0,
             DirectCallers |-> {}, IndirectCallers |-> {}, DirectCallees |-> {},
             IndirectCallees |-> {}, RiskLevel |-> "none", DirectCount |-> 0,
             TotalCallers |-> 0, MaxDepth |-> 0, Callers |-> {}, Callees |-> {},
             node |-> <<>>, inserted |-> {}, seen |-> {}, limit |-> 0]
NoTree == [pc |-> "none", dir |-> "up", id |-> 0, maxDepth |-> 0, stack |-> <<>>, paths |-> {}]

(***************************************************************************)
(* Bounds of the model.                                                    *)
(***************************************************************************)
MaxRowId == 2      \* SpecStore: the largest rowid a table reaches
MaxQEdges == 3     \* SpecQuery, SpecTree: the most edges of a queried graph
MaxDepthArg == 3   \* SpecQuery, SpecTree: the largest maxDepth argument
MaxBuildCalls == 3 \* SpecBuild: the most calls of a built call graph
MaxTreeCalls == 3  \* SpecAnalyze: the most calls of the tree at the git base
MaxEvents == 2     \* SpecWatch: the most accepted file system events handled
DebounceTicks == 2 \* SpecWatch: debounceDelay, in ticks of the clock
MaxDirect == 50    \* SpecRisk: the most direct callers of the scored function
MaxFan == 200      \* SpecRisk: the most callers of its first caller
MaxLookupNodes == 3 \* SpecLookup: the most rows of the node table
MaxIngestPairs == 3 \* SpecIngest: the most implementations, and references, of a project
MaxRebuildQueries == 2 \* SpecRebuild: the most queries made while one rebuild runs
MaxTopLimit == 4   \* SpecTop: the largest limit argument

(***************************************************************************)
(* internal/storage: the two tables and the statements run on them.        *)
(***************************************************************************)
NodeKinds == {"func", "struct", "interface", "package", "var", "const"}
EdgeKinds == {"calls", "implements", "references"}

SetMax(S) == CHOOSE x \in S : \A y \in S : y <= x

\* the ids of the rows of a table
Ids(rows) == {r.id : r \in rows}

\* INTEGER PRIMARY KEY without AUTOINCREMENT: the new rowid is one more than
\* the largest rowid in the table, 1 in an empty table
NextRowId(rows) == IF rows = {} THEN 1 ELSE SetMax(Ids(rows)) + 1

\* PRAGMA foreign_keys = ON with FOREIGN KEY (from_id), (to_id) REFERENCES nodes(id)
ForeignKeysHold(N, e) == e.from \in Ids(N) /\ e.to \in Ids(N)

\* InsertNode: the row gets the next rowid, which is returned
InsertNode(N, kind, name, pkg) ==
    LET id == NextRowId(N)
    IN  [nodes |-> N \cup {[id |-> id, kind |-> kind, name |-> name, pkg |-> pkg]},
         id |-> id]

\* InsertEdge as a statement that ignores the foreign keys
InsertEdge_NoForeignKeys(N, E, from, to, kind) ==
    [edges |-> E \cup {[id |-> NextRowId(E), from |-> from, to |-> to, kind |-> kind]},
     err |-> FALSE]

\* InsertEdge: the INSERT fails, and inserts nothing, when an endpoint is no node
InsertEdge(N, E, from, to, kind) ==
    IF ForeignKeysHold(N, [from |-> from, to |-> to])
    THEN [edges |-> E \cup {[id |-> NextRowId(E), from |-> from, to |-> to, kind |-> kind]},
          err |-> FALSE]
    ELSE [edges |-> E, err |-> TRUE]

\* SELECT id FROM nodes WHERE package IN (...)
IdsOfPackages(N, pkgs) == {n.id : n \in {m \in N : m.pkg \in pkgs}}

\* DELETE FROM edges WHERE from_id IN (...) OR to_id IN (...)
EdgesNotTouching(N, E, pkgs) ==
    {e \in E : ~(e.from \in IdsOfPackages(N, pkgs) \/ e.to \in IdsOfPackages(N, pkgs))}

\* DELETE FROM nodes WHERE package IN (...)
NodesNotIn(N, pkgs) == {n \in N : n.pkg \notin pkgs}

\* The places where DeleteNodesByPackage can get an error from the database:
\* its first Exec (the edges), its second Exec (the nodes), or neither.
DeleteFailures == {"none", "edges", "nodes"}

\* DeleteNodesByPackage without its first statement: only the nodes go
DeleteNodesByPackage_NodesOnly(N, E, pkgs, fail) ==
    [nodes |-> NodesNotIn(N, pkgs), edges |-> E, err |-> FALSE,
     count |-> Cardinality(N \ NodesNotIn(N, pkgs))]

\* DeleteNodesByPackage: two Exec calls on the connection, no transaction.
\* A failed statement changes nothing; the statement before it stays done.
DeleteNodesByPackage(N, E, pkgs, fail) ==
    IF pkgs = {} THEN [nodes |-> N, edges |-> E, err |-> FALSE, count |-> 0]
    ELSE IF fail = "edges" THEN [nodes |-> N, edges |-> E, err |-> TRUE, count |-> 0]
    ELSE IF fail = "nodes"
         THEN [nodes |-> N, edges |-> EdgesNotTouching(N, E, pkgs), err |-> TRUE, count |-> 0]
    ELSE [nodes |-> NodesNotIn(N, pkgs), edges |-> EdgesNotTouching(N, E, pkgs),
          err |-> FALSE, count |-> Cardinality(N \ NodesNotIn(N, pkgs))]

\* DeleteOrphanEdges: one DELETE; when it fails nothing is deleted
DeleteOrphanEdges(N, E, fail) ==
    IF fail THEN [edges |-> E, err |-> TRUE, count |-> 0]
    ELSE [edges |-> {e \in E : ForeignKeysHold(N, e)}, err |-> FALSE,
          count |-> Cardinality({e \in E : ~ForeignKeysHold(N, e)})]

\* Clear: "DELETE FROM edges; DELETE FROM nodes;" in one Exec. The statements run
\* in order; an error at the second leaves the first done.
ClearFailures == {"none", "edges", "nodes"}

Clear(N, E, fail) ==
    IF fail = "edges" THEN [nodes |-> N, edges |-> E, err |-> TRUE]
    ELSE IF fail = "nodes" THEN [nodes |-> N, edges |-> {}, err |-> TRUE]
    ELSE [nodes |-> {}, edges |-> {}, err |-> FALSE]

\* Open: foreign keys on, schema created if missing; a new database is empty
OpenedEmpty == [nodes |-> {}, edges |-> {}]

(***************************************************************************)
(* internal/storage: the read queries.                                     *)
(***************************************************************************)
\* the edge rows in rowid order, as a sequence
RECURSIVE RowsInOrder(_)
RowsInOrder(rows) ==
    IF rows = {} THEN <<>>
    ELSE LET r == CHOOSE x \in rows : \A y \in rows : x.id <= y.id
         IN  <<r>> \o RowsInOrder(rows \ {r})

\* the join without "AND e.kind = 'calls'"
GetDirectCallers_AnyKind(N, E, id) ==
    LET es == RowsInOrder({e \in E : e.to = id /\ e.from \in Ids(N)})
    IN  [i \in 1..Len(es) |-> es[i].from]

\* GetDirectCallers: nodes JOIN edges ON e.from_id = n.id WHERE e.to_id = ? AND
\* e.kind = 'calls': one row per matching edge, the caller's id
GetDirectCallers(N, E, id) ==
    LET es == RowsInOrder({e \in E : e.to = id /\ e.kind = "calls" /\ e.from \in Ids(N)})
    IN  [i \in 1..Len(es) |-> es[i].from]

\* GetDirectCallees: nodes JOIN edges ON e.to_id = n.id WHERE e.from_id = ? AND
\* e.kind = 'calls'
GetDirectCallees(N, E, id) ==
    LET es == RowsInOrder({e \in E : e.from = id /\ e.kind = "calls" /\ e.to \in Ids(N)})
    IN  [i \in 1..Len(es) |-> es[i].to]

Range(f) == {f[i] : i \in DOMAIN f}

\* one hop of the query's join, in the direction asked for
Neighbours(N, E, id, dir) ==
    IF dir = "up" THEN Range(GetDirectCallers(N, E, id))
    ELSE Range(GetDirectCallees(N, E, id))

(***************************************************************************)
(* GetUpstreamCallers / GetDownstreamCallees: WITH RECURSIVE callers(id,   *)
(* ..., depth) AS (initial-select UNION recursive-select) SELECT DISTINCT. *)
(* SQLite runs the initial select into a queue; then, while the queue is   *)
(* not empty, it moves one row from the queue to the table and runs the    *)
(* recursive select on that row alone. UNION drops a row only when the     *)
(* same row, all columns, was added before. The columns other than id and  *)
(* depth are those of the node with that id, so a row is <<id, depth>>.    *)
(*                                                                         *)
(* depth is c.depth + 1, without a bound when maxDepth = 0. The queue is   *)
(* first in, first out, so it holds rows of at most two depths, d and      *)
(* d + 1, and a new row can only repeat a row of its own depth that is     *)
(* still in the queue. A query with a limit never derives a row deeper     *)
(* than maxDepth. The state keeps a row as it is up to depth               *)
(* FoldFrom(maxDepth) + 1, which no query with a limit goes beyond; the    *)
(* rows of a query that runs on without end are kept by their parity from  *)
(* there on (FoldFrom, FoldFrom + 1, FoldFrom, ...), and a row that deep   *)
(* is a duplicate only of a row in the queue.                              *)
(***************************************************************************)
QNodeIds == 1..3
DepthCap == Cardinality(QNodeIds) + 1

NoQuery == [pc |-> "none", dir |-> "up", id |-> 0, maxDepth |-> 0,
            queue |-> <<>>, table |-> {}, result |-> {}]

SetToSeq(S) == RowsInOrder({[id |-> x] : x \in S})

\* c.depth + 1
NextDepth(d) == d + 1

\* the depth from which the state keeps rows by parity: above every depth that
\* "c.depth < maxDepth" lets a row have, and above the longest simple path
FoldFrom(maxDepth) == IF maxDepth > DepthCap THEN maxDepth ELSE DepthCap

\* a derived row as the state keeps it
KeptRow(r, maxDepth) == IF r[2] > FoldFrom(maxDepth) + 1 THEN <<r[1], r[2] - 2>> ELSE r

\* the rows among `rows` that UNION lets into the queue
UnionNew(rows, q) ==
    {r \in rows : /\ r \notin Range(q.queue)
                  /\ (r[2] >= FoldFrom(q.maxDepth) \/ r \notin q.table)}

AppendRows(queue, rows) ==
    LET byId == SetToSeq({r[1] : r \in rows})
    IN  queue \o [i \in 1..Len(byId) |-> CHOOSE r \in rows : r[1] = byId[i].id]

\* the initial select: the direct neighbours, at depth 1
CteStart(N, E, dir, id, maxDepth) ==
    [pc |-> "run", dir |-> dir, id |-> id, maxDepth |-> maxDepth,
     queue |-> AppendRows(<<>>, {<<n, 1>> : n \in Neighbours(N, E, id, dir)}),
     table |-> {}, result |-> {}]

\* the recursive select without "AND c.depth < ?"
RecursiveSelect_NoLimit(N, E, q, row) ==
    {<<n, NextDepth(row[2])>> : n \in Neighbours(N, E, row[1], q.dir)}

\* the recursive select on one row of the table: the join, with
\* "AND c.depth < ?" only when maxDepth is not 0
RecursiveSelect(N, E, q, row) ==
    IF q.maxDepth = 0 \/ row[2] < q.maxDepth
    THEN {<<n, NextDepth(row[2])>> : n \in Neighbours(N, E, row[1], q.dir)}
    ELSE {}

\* one round of the loop: the head of the queue goes to the table and the rows
\* the recursive select derives from it go to the queue
CteRound(N, E, q) ==
    LET row == Head(q.queue)
        q1  == [q EXCEPT !.queue = Tail(q.queue), !.table = q.table \cup {row}]
        derived == {KeptRow(r, q.maxDepth) : r \in RecursiveSelect(N, E, q1, row)}
    IN  [q1 EXCEPT !.queue = AppendRows(q1.queue, UnionNew(derived, q1))]

\* SELECT DISTINCT id, ... FROM callers, scanned into the returned slice
CteFinish(q) == [q EXCEPT !.pc = "done", !.result = {r[1] : r \in q.table}]

(***************************************************************************)
(* SpecQuery: a stored graph of functions and one upstream or downstream   *)
(* query on it, run a round at a time.                                     *)
(***************************************************************************)
\* Build stores no edge from a function to itself and no pair twice
QPairs == {p \in QNodeIds \X QNodeIds : p[1] # p[2]}

QNode(i) == [id |-> i, kind |-> "func", name |-> i, pkg |-> "p"]

RECURSIVE NumberEdges(_, _)
NumberEdges(pairs, nextId) ==
    IF pairs = {} THEN {}
    ELSE LET p == CHOOSE x \in pairs : \A y \in pairs :
                      x[1] < y[1] \/ (x[1] = y[1] /\ x[2] <= y[2])
         IN  {[id |-> nextId, from |-> p[1], to |-> p[2], kind |-> "calls"]}
                 \cup NumberEdges(pairs \ {p}, nextId + 1)

InitGraph ==
    /\ nodes = {QNode(i) : i \in QNodeIds}
    /\ \E S \in SUBSET QPairs :
          /\ Cardinality(S) <= MaxQEdges
          /\ edges = NumberEdges(S, 1)
    /\ last = NoCall

InitQuery ==
    /\ InitGraph
    /\ cte = NoQuery
    /\ tree = NoTree
    /\ watch = NoWatch
    /\ proj = NoProj
    /\ report = NoReport

\* the depths asked for: 0 (no limit), the small ones, and the default of the
\* command line
DefaultDepth == 7
QueryDepths == (0..MaxDepthArg) \cup {DefaultDepth}

StartQuery ==
    /\ cte.pc = "none"
    /\ \E dir \in {"up", "down"}, id \in QNodeIds, maxDepth \in QueryDepths :
          cte' = CteStart(nodes, edges, dir, id, maxDepth)
    /\ UNCHANGED <<nodes, edges, last, tree, watch, proj, report>>

QueryRound ==
    /\ cte.pc = "run"
    /\ cte.queue # <<>>
    /\ cte' = CteRound(nodes, edges, cte)
    /\ UNCHANGED <<nodes, edges, last, tree, watch, proj, report>>

QueryFinish ==
    /\ cte.pc = "run"
    /\ cte.queue = <<>>
    /\ cte' = CteFinish(cte)
    /\ UNCHANGED <<nodes, edges, last, tree, watch, proj, report>>

NextQuery == StartQuery \/ QueryRound \/ QueryFinish

\* the database engine keeps running a query it has started
SpecQuery == InitQuery /\ [][NextQuery]_vars /\ WF_vars(QueryRound \/ QueryFinish)

\* the nodes that reach id (dir "up") or that id reaches (dir "down") along one
\* or more calls edges
RECURSIVE ReachWithin(_, _, _, _, _)
ReachWithin(N, E, S, dir, k) ==
    IF k = 0 THEN {}
    ELSE LET step == UNION {Neighbours(N, E, x, dir) : x \in S}
         IN  step \cup ReachWithin(N, E, step, dir, k - 1)

Reachable(N, E, id, dir) == ReachWithin(N, E, {id}, dir, Cardinality(N))

(***************************************************************************)
(* C1: on every stored graph, cyclic ones included, upstream(id, 0) and    *)
(* downstream(id, 0) terminate, and the result is the set of nodes         *)
(* reachable along one or more calls edges, each once.                     *)
(***************************************************************************)
C1_UnboundedTerminates ==
    [](cte.pc = "run" /\ cte.maxDepth = 0 =>
          <>(cte.pc = "done" /\ cte.result = Reachable(nodes, edges, cte.id, cte.dir)))


(***************************************************************************)
(* C14: on every stored graph and for every node id, upstream(id, 1) is    *)
(* the set of directCallers(id) and downstream(id, 1) is the set of        *)
(* directCallees(id).                                                      *)
(***************************************************************************)
C14_DepthOneIsDirect ==
    (cte.pc = "done" /\ cte.maxDepth = 1) =>
        cte.result = IF cte.dir = "up" THEN Range(GetDirectCallers(nodes, edges, cte.id))
                     ELSE Range(GetDirectCallees(nodes, edges, cte.id))

\* a depth-1 query has returned some nodes, and more nodes than those are
\* reachable from its start
C14_Witness ==
    /\ cte.pc = "done"
    /\ cte.maxDepth = 1
    /\ cte.result # {}
    /\ Reachable(nodes, edges, cte.id, cte.dir) \ cte.result # {}

(***************************************************************************)
(* GetUpstreamCallTree / GetDownstreamCallTree: a recursive function. Its  *)
(* activations are the frames of tree.stack: [node, depth, path, pc, todo] *)
(* where depth is the maxDepth argument, path the callers from the root's  *)
(* child down to node, and todo the callers the loop has not reached yet.  *)
(* A tree node is the path that leads to it, so the tree built is the set  *)
(* tree.paths; a leaf is a path with no longer path under it.              *)
(***************************************************************************)
\* the activations the goroutine's stack has room for. The recursion itself
\* has no bound: the Go runtime ends the process with "stack overflow" when
\* the stack passes its limit (1 GB), here when it would pass StackCap frames.
\* A request with the depth of the command line stays below it.
StackCap == 8

\* maxDepth-1
DepthMinusOne(d) == d - 1

TreeNeighbours(N, E, id, dir) ==
    IF dir = "up" THEN GetDirectCallers(N, E, id) ELSE GetDirectCallees(N, E, id)

Frame(node, depth, path) ==
    [node |-> node, depth |-> depth, path |-> path, pc |-> "call", todo |-> <<>>]

Pop(stack) == SubSeq(stack, 1, Len(stack) - 1)
Top(stack) == stack[Len(stack)]

TreeStart(dir, id, maxDepth) ==
    [pc |-> "run", dir |-> dir, id |-> id, maxDepth |-> maxDepth,
     stack |-> <<Frame(id, maxDepth, <<>>)>>, paths |-> {}]

\* the start of an activation: the direct callers are read; with maxDepth == 1
\* or no callers they are returned as tree nodes without children
TreeCall(N, E, t) ==
    LET f == Top(t.stack)
        callers == TreeNeighbours(N, E, f.node, t.dir)
    IN  IF f.depth = 1 \/ Len(callers) = 0
        THEN [t EXCEPT !.stack = Pop(t.stack),
                       !.paths = t.paths \cup {Append(f.path, callers[i]) : i \in DOMAIN callers},
                       !.pc = IF Len(t.stack) = 1 THEN "done" ELSE "run"]
        ELSE [t EXCEPT !.stack[Len(t.stack)] = [f EXCEPT !.pc = "loop", !.todo = callers]]

\* one turn of "for i, c := range callers": the recursive call on c with
\* maxDepth-1, or the return when the callers are used up; a call the stack
\* has no room for ends the process
TreeLoop(t) ==
    LET f == Top(t.stack)
    IN  IF f.todo = <<>>
        THEN [t EXCEPT !.stack = Pop(t.stack),
                       !.pc = IF Len(t.stack) = 1 THEN "done" ELSE "run"]
        ELSE IF Len(t.stack) >= StackCap THEN [t EXCEPT !.pc = "overflow"]
        ELSE LET c == Head(f.todo)
             IN  [t EXCEPT !.stack = Append([t.stack EXCEPT ![Len(t.stack)].todo = Tail(f.todo)],
                                            Frame(c, DepthMinusOne(f.depth), Append(f.path, c))),
                           !.paths = t.paths \cup {Append(f.path, c)}]

(***************************************************************************)
(* SpecTree: a stored graph of functions and one call-tree request on it.  *)
(***************************************************************************)
InitTree ==
    /\ InitGraph
    /\ cte = NoQuery
    /\ tree = NoTree
    /\ watch = NoWatch
    /\ proj = NoProj
    /\ report = NoReport

StartTree ==
    /\ tree.pc = "none"
    /\ \E dir \in {"up", "down"}, id \in QNodeIds, maxDepth \in QueryDepths :
          tree' = TreeStart(dir, id, maxDepth)
    /\ UNCHANGED <<nodes, edges, last, cte, watch, proj, report>>

StepTreeCall ==
    /\ tree.pc = "run"
    /\ Top(tree.stack).pc = "call"
    /\ tree' = TreeCall(nodes, edges, tree)
    /\ UNCHANGED <<nodes, edges, last, cte, watch, proj, report>>

StepTreeLoop ==
    /\ tree.pc = "run"
    /\ Top(tree.stack).pc = "loop"
    /\ tree' = TreeLoop(tree)
    /\ UNCHANGED <<nodes, edges, last, cte, watch, proj, report>>

NextTree == StartTree \/ StepTreeCall \/ StepTreeLoop

SpecTree == InitTree /\ [][NextTree]_vars

\* the nodes from the root to the node a path leads to, that node left out
Ancestors(t, path) == {t.id} \cup {path[i] : i \in 1..(Len(path) - 1)}

HasChildren(t, path) == \E q \in t.paths : Len(q) = Len(path) + 1 /\ SubSeq(q, 1, Len(path)) = path

(***************************************************************************)
(* C9: upstreamTree and downstreamTree terminate on every graph, cyclic    *)
(* ones included, for every maxDepth, 0 (unlimited) included: a node that  *)
(* is already on the current root-to-node path is emitted as a leaf and    *)
(* not expanded again, so no activation is nested deeper than the graph    *)
(* has nodes.                                                              *)
(***************************************************************************)
C9_OnPathIsLeaf ==
    /\ \A p \in tree.paths : p[Len(p)] \in Ancestors(tree, p) => ~HasChildren(tree, p)
    /\ Len(tree.stack) <= Cardinality(nodes) + 1

(***************************************************************************)
(* internal/watcher: handleEvent runs on the event loop's goroutine; each  *)
(* debounce timer that fires runs triggerAnalysis on a goroutine of its    *)
(* own (time.AfterFunc). pendingMu covers handleEvent's last three         *)
(* statements and triggerAnalysis's copy-and-reset of pendingFiles, each   *)
(* straight-line code, so each is one step. runAnalysis runs outside the   *)
(* mutex.                                                                  *)
(*   watch.timer       "armed" while the newest debounceTimer has neither  *)
(*                     fired nor been stopped                              *)
(*   watch.sinceReset  ticks since the timer was last set                  *)
(*   watch.locking     triggerAnalysis goroutines not yet past the mutex   *)
(*   watch.running     triggerAnalysis goroutines inside runAnalysis       *)
(*   watch.runs        those runAnalysis calls, each with how far it is    *)
(***************************************************************************)
WatchedFiles == {"a.go", "b.go", "a_test.go", "notes.md"}
HasSuffixGo(f) == f \in {"a.go", "b.go", "a_test.go"}
HasSuffixTestGo(f) == f = "a_test.go"
FsOps == {"Write", "Create", "Remove", "Rename", "Chmod"}

\* the three early returns of handleEvent
Accepted(f, op) ==
    /\ HasSuffixGo(f)
    /\ ~HasSuffixTestGo(f)
    /\ op \in {"Write", "Create", "Remove", "Rename"}

\* handleEvent that resets a running timer but sets none when no timer is
\* pending
handleEvent_NoRearm(w, f, op) ==
    IF Accepted(f, op)
    THEN [w EXCEPT !.pendingFiles = w.pendingFiles \cup {f},
                   !.sinceReset = 0, !.events = w.events + 1]
    ELSE w

\* handleEvent: the file joins pendingFiles; the old timer is stopped and a new
\* one is set (a timer that has already fired is not undone by Stop)
handleEvent(w, f, op) ==
    IF Accepted(f, op)
    THEN [w EXCEPT !.pendingFiles = w.pendingFiles \cup {f},
                   !.timer = "armed", !.sinceReset = 0, !.events = w.events + 1]
    ELSE w

\* the runtime starts triggerAnalysis once debounceDelay has passed
TimerFires(w) == [w EXCEPT !.timer = "none", !.locking = w.locking + 1]

\* a runAnalysis that has just been called
NewRun ==
    [pc |-> "load", cg |-> NoGraph, todo |-> <<>>, nodeMap |-> {}, work |-> <<>>,
     edgeSet |-> {}]

\* triggerAnalysis up to runAnalysis: under the mutex the pending files are
\* copied and the map reset; with no files it returns, else it calls runAnalysis
triggerAnalysis(w) ==
    IF w.pendingFiles = {}
    THEN [w EXCEPT !.locking = w.locking - 1]
    ELSE [w EXCEPT !.pendingFiles = {}, !.locking = w.locking - 1,
                   !.running = w.running + 1, !.runs = w.runs (+) SetToBag({NewRun})]

\* runAnalysis returns (with or without an error) and triggerAnalysis with it
AnalysisReturns(w, run) ==
    [w EXCEPT !.running = w.running - 1, !.runs = w.runs (-) SetToBag({run})]

(***************************************************************************)
(* internal/graph: the Builder. A function of the call graph is the record *)
(* [pkg, fn, clo, synthetic]: its package path, the name of the declared   *)
(* function, the closure numbers after it (fn.String() of <<1, 2>> is      *)
(* "pkg.fn$1$2") and whether it is synthetic without a position. A call    *)
(* graph is [fns, calls]: cg.Nodes and, as [caller, callee, site], the     *)
(* edges of every node's Out list, in site order.                          *)
(***************************************************************************)
Fn(pkg, fn, clo) == [pkg |-> pkg, fn |-> fn, clo |-> clo, synthetic |-> FALSE]

\* NewBuilder: projectPkgs is the set of package paths of the loaded packages
isProjectFunction(projectPkgs, f) == f.pkg \in projectPkgs

\* b.targetPkgs of a new Builder: nil, which means no filter
NilTargets == [nil |-> TRUE, pkgs |-> {}]

\* isTargetFunction as a filter that lets every project function through
isTargetFunction_NoFilter(projectPkgs, targetPkgs, f) == isProjectFunction(projectPkgs, f)

\* isTargetFunction: without a filter every project function, with one the
\* functions of the target packages
isTargetFunction(projectPkgs, targetPkgs, f) ==
    IF targetPkgs.nil THEN isProjectFunction(projectPkgs, f)
    ELSE f.pkg \in targetPkgs.pkgs

\* SetTargetPackages: an empty list means no filter
SetTargetPackages(pkgPaths) ==
    IF pkgPaths = {} THEN NilTargets ELSE [nil |-> FALSE, pkgs |-> pkgPaths]

\* isClosure: the name contains "$"
isClosure(f) == Len(f.clo) > 0

\* getParentFunctionName: the name up to its last "$"
getParentFunctionName(f) ==
    IF isClosure(f) THEN [f EXCEPT !.clo = SubSeq(f.clo, 1, Len(f.clo) - 1)] ELSE f

\* Build, first pass: every project closure is mapped to its parent's name
ClosureParents(cg, projectPkgs) ==
    [f \in {g \in cg.fns : isProjectFunction(projectPkgs, g) /\ isClosure(g)} |->
        getParentFunctionName(f)]

\* resolveToParent that looks a name up once
resolveToParent_OneLevel(closureParent, name) ==
    IF name \in DOMAIN closureParent THEN closureParent[name] ELSE name

\* resolveToParent: follow closureParent until a name that is not in it
RECURSIVE resolveToParent(_, _)
resolveToParent(closureParent, name) ==
    IF name \in DOMAIN closureParent
    THEN resolveToParent(closureParent, closureParent[name])
    ELSE name

\* the second pass without its closure test
GetsNode_ClosuresToo(cg, projectPkgs, targetPkgs, f) ==
    /\ ~f.synthetic
    /\ isProjectFunction(projectPkgs, f)
    /\ isTargetFunction(projectPkgs, targetPkgs, f)

\* Build, second pass: the functions that get a node
GetsNode(cg, projectPkgs, targetPkgs, f) ==
    /\ ~f.synthetic
    /\ isProjectFunction(projectPkgs, f)
    /\ ~isClosure(f)
    /\ isTargetFunction(projectPkgs, targetPkgs, f)

\* createFunctionNode and b.nodeMap[fn.String()] = nodeID, one function after
\* the other in the order the map iteration yields them
RECURSIVE CreateNodes(_, _, _)
CreateNodes(order, N, nodeMap) ==
    IF order = <<>> THEN [nodes |-> N, nodeMap |-> nodeMap]
    ELSE CreateNodes(Tail(order), InsertNode(N, "func", Head(order), Head(order).pkg).nodes,
                     nodeMap \cup {<<Head(order), NextRowId(N)>>})

MapHas(nodeMap, name) == \E p \in nodeMap : p[1] = name
MapGet(nodeMap, name) == (CHOOSE p \in nodeMap : p[1] = name)[2]

\* node.Out of a function: its calls in call-site order
Out(cg, f) == 
    LET cs == {c \in cg.calls : c.caller = f}
    IN  RowsInOrder({[id |-> c.site, callee |-> c.callee] : c \in cs})

\* Build, third pass, the inner loop over node.Out of one caller: both ends are
\* resolved to their parents; edges to names without a node, self-loops and
\* repeated pairs are skipped; the rest are inserted
RECURSIVE CreateEdgesOf(_, _, _, _, _, _)
CreateEdgesOf(out, fromID, closureParent, nodeMap, N, st) ==
    IF out = <<>> \/ st.err THEN st
    ELSE LET calleeName == resolveToParent(closureParent, Head(out).callee)
             rest == Tail(out)
         IN  IF ~MapHas(nodeMap, calleeName)
             THEN CreateEdgesOf(rest, fromID, closureParent, nodeMap, N, st)
             ELSE LET toID == MapGet(nodeMap, calleeName)
                  IN  IF fromID = toID \/ <<fromID, toID>> \in st.edgeSet
                      THEN CreateEdgesOf(rest, fromID, closureParent, nodeMap, N, st)
                      ELSE LET r == InsertEdge(N, st.edges, fromID, toID, "calls")
                           IN  CreateEdgesOf(rest, fromID, closureParent, nodeMap, N,
                                   [edges |-> r.edges, err |-> r.err,
                                    edgeSet |-> st.edgeSet \cup {<<fromID, toID>>}])

\* Build, third pass, the outer loop over cg.Nodes in map iteration order
RECURSIVE CreateEdges(_, _, _, _, _, _)
CreateEdges(order, cg, closureParent, nodeMap, N, st) ==
    IF order = <<>> \/ st.err THEN st
    ELSE LET callerName == resolveToParent(closureParent, Head(order))
         IN  IF ~MapHas(nodeMap, callerName)
             THEN CreateEdges(Tail(order), cg, closureParent, nodeMap, N, st)
             ELSE CreateEdges(Tail(order), cg, closureParent, nodeMap, N,
                      CreateEdgesOf(Out(cg, Head(order)), MapGet(nodeMap, callerName),
                                    closureParent, nodeMap, N, st))

\* Build returns: the store it leaves, its error, and GetNodeCount()
BuildDone(made, st) ==
    [nodes |-> made.nodes, edges |-> st.edges, err |-> st.err,
     nodeCount |-> Cardinality(made.nodeMap)]

\* Build after its second pass: the third pass, and what the run leaves
BuildEdges(cg, closureParent, made, E, edgeOrder) ==
    BuildDone(made, CreateEdges(edgeOrder, cg, closureParent, made.nodeMap, made.nodes,
                                [edges |-> E, err |-> FALSE, edgeSet |-> {}]))

\* Build: the three passes on the store <<N, E>>. nodeOrder and edgeOrder are
\* the orders in which the second and third pass meet the functions.
Build(cg, projectPkgs, targetPkgs, N, E, nodeOrder, edgeOrder) ==
    BuildEdges(cg, ClosureParents(cg, projectPkgs), CreateNodes(nodeOrder, N, {}),
               E, edgeOrder)

\* all orders in which a map iteration can yield the members of S
Perms(S) ==
    {s \in [1..Cardinality(S) -> S] : \A i, j \in 1..Cardinality(S) : s[i] = s[j] => i = j}

\* the orders of the second pass, over the functions it does not skip
NodeOrders(cg, projectPkgs, targetPkgs) ==
    Perms({f \in cg.fns : GetsNode(cg, projectPkgs, targetPkgs, f)})

\* the orders of the third pass, over the functions it does not skip and that
\* have calls
EdgeOrders(cg, projectPkgs, targetPkgs) ==
    Perms({f \in cg.fns :
             /\ \E c \in cg.calls : c.caller = f
             /\ \E g \in cg.fns :
                  /\ g = resolveToParent(ClosureParents(cg, projectPkgs), f)
                  /\ GetsNode(cg, projectPkgs, targetPkgs, g)})

(***************************************************************************)
(* main.go: the analyze command. Paths are sequences of characters.        *)
(***************************************************************************)
\* strings.HasSuffix, strings.HasPrefix, strings.TrimPrefix
HasSuffix(s, suffix) ==
    Len(suffix) <= Len(s) /\ SubSeq(s, Len(s) - Len(suffix) + 1, Len(s)) = suffix

HasPrefix(s, prefix) == Len(prefix) <= Len(s) /\ SubSeq(s, 1, Len(prefix)) = prefix

TrimPrefix(s, prefix) ==
    IF HasPrefix(s, prefix) THEN SubSeq(s, Len(prefix) + 1, Len(s)) ELSE s

\* the project: module m with the packages m/a and m/ba in the directories
\* a and ba; pkgs as LoadPackages and FilterMainPackages return them
ModulePath == <<"m">>
PkgA == ModulePath \o <<"/", "a">>
PkgBA == ModulePath \o <<"/", "b", "a">>
LoadedPkgs == <<PkgA, PkgBA>>

\* the directory of a package, relative to the project path
PkgDir(pkgPath) == TrimPrefix(pkgPath, ModulePath \o <<"/">>)

\* the calls written in the files of a package
CallsIn(cg, pkgPath) == {c \in cg.calls : c.caller.pkg = pkgPath}

\* GetGitChanges: "./" and the directory of every .go file that differs from
\* the base; ChangedPackages of the result
GetGitChanges(base, cg, pkgs) ==
    {<<".", "/">> \o PkgDir(pkgs[i]) :
        i \in {j \in 1..Len(pkgs) : CallsIn(base, pkgs[j]) # CallsIn(cg, pkgs[j])}}

SetMin(S) == CHOOSE x \in S : \A y \in S : x <= y

\* the conversion of one changed directory: the first loaded package whose
\* path ends with "/" + suffix or with suffix, if there is one
FullPkgPath(relativePath, pkgs) ==
    LET trimmed == TrimPrefix(relativePath, <<".", "/">>)
        suffix == IF trimmed = <<>> THEN <<".">> ELSE trimmed
        matching == {i \in 1..Len(pkgs) :
                        /\ pkgs[i] # <<>>
                        /\ \/ HasSuffix(pkgs[i], <<"/">> \o suffix)
                           \/ HasSuffix(pkgs[i], suffix)}
    IN  IF matching = {} THEN {} ELSE {pkgs[SetMin(matching)]}

\* fullPkgPaths: the conversions of all changed directories
FullPkgPaths(changedDirs, pkgs) == UNION {FullPkgPath(r, pkgs) : r \in changedDirs}

\* changedPackages when the database is opened: empty unless the run is
\* incremental and git could be asked
ChangedPackages(pkgs, incremental, gitErr, changedDirs) ==
    IF incremental /\ ~gitErr THEN FullPkgPaths(changedDirs, pkgs) ELSE {}

\* the filter the builder gets: "incremental && len(changedPackages) > 0"
TargetsOf(pkgs, incremental, gitErr, changedDirs) ==
    IF incremental /\ ~gitErr /\ ChangedPackages(pkgs, incremental, gitErr, changedDirs) # {}
    THEN SetTargetPackages(ChangedPackages(pkgs, incremental, gitErr, changedDirs))
    ELSE NilTargets

\* the run returns before the graph is built: no Go file changed (skipped),
\* or db.Clear() was called and failed
analyzeCmdBefore(N, E, pkgs, incremental, gitErr, changedDirs, delFail, clearFail) ==
    LET inc == incremental /\ ~gitErr
        changedPackages == ChangedPackages(pkgs, incremental, gitErr, changedDirs)
        scoped == inc /\ changedPackages # {}
        del == DeleteNodesByPackage(N, E, changedPackages, delFail)
        clr == IF scoped THEN Clear(del.nodes, del.edges, clearFail) ELSE Clear(N, E, clearFail)
    IN  IF inc /\ changedDirs = {}
        THEN [returns |-> TRUE, skipped |-> TRUE, nodes |-> N, edges |-> E, err |-> FALSE]
        ELSE IF (scoped => del.err) /\ clr.err
        THEN [returns |-> TRUE, skipped |-> FALSE, nodes |-> clr.nodes, edges |-> clr.edges,
              err |-> TRUE]
        ELSE [returns |-> FALSE, skipped |-> FALSE, nodes |-> N, edges |-> E, err |-> FALSE]

\* the run after Build: its error is the run's error
analyzeCmdAfter(built, incremental, changedPackages, fallback) ==
    [nodes |-> built.nodes, edges |-> built.edges, err |-> built.err,
     skipped |-> FALSE, incremental |-> incremental,
     changedPackages |-> changedPackages, fallback |-> fallback]

\* the run from the scoped delete on; scoped is "incremental &&
\* len(changedPackages) > 0", del is what DeleteNodesByPackage did
analyzeCmdStore(N, E, cg, pkgs, scoped, changedPackages, del, sweepFail, clearFail, nodeOrder, edgeOrder) ==
    IF scoped /\ ~del.err
    THEN analyzeCmdAfter(
             Build(cg, {pkgs[i] : i \in 1..Len(pkgs)}, SetTargetPackages(changedPackages),
                   del.nodes, DeleteOrphanEdges(del.nodes, del.edges, sweepFail).edges,
                   nodeOrder, edgeOrder),
             scoped, changedPackages, FALSE)
    ELSE IF scoped
    THEN analyzeCmdAfter(
             Build(cg, {pkgs[i] : i \in 1..Len(pkgs)}, SetTargetPackages(changedPackages),
                   Clear(del.nodes, del.edges, clearFail).nodes,
                   Clear(del.nodes, del.edges, clearFail).edges, nodeOrder, edgeOrder),
             scoped, changedPackages, TRUE)
    ELSE analyzeCmdAfter(
             Build(cg, {pkgs[i] : i \in 1..Len(pkgs)}, NilTargets,
                   Clear(N, E, clearFail).nodes, Clear(N, E, clearFail).edges,
                   nodeOrder, edgeOrder),
             scoped, changedPackages, FALSE)

\* the RunE of analyzeCmd on the store <<N, E>> and the call graph cg of the
\* working tree. delFail, sweepFail and clearFail say which database statement
\* fails; nodeOrder and edgeOrder are the builder's iteration orders.
analyzeCmd(N, E, cg, pkgs, incremental, gitErr, changedDirs, delFail, sweepFail, clearFail, nodeOrder, edgeOrder) ==
    LET inc == incremental /\ ~gitErr
        changedPackages == ChangedPackages(pkgs, incremental, gitErr, changedDirs)
        before == analyzeCmdBefore(N, E, pkgs, incremental, gitErr, changedDirs,
                                   delFail, clearFail)
    IN  IF before.returns
        THEN [nodes |-> before.nodes, edges |-> before.edges, err |-> before.err,
              skipped |-> before.skipped, incremental |-> inc,
              changedPackages |-> changedPackages, fallback |-> FALSE]
        ELSE analyzeCmdStore(N, E, cg, pkgs, inc /\ changedPackages # {}, changedPackages,
                             DeleteNodesByPackage(N, E, changedPackages, delFail),
                             sweepFail, clearFail, nodeOrder, edgeOrder)

\* what the store says, ids aside: the nodes, the edges by the names of their
\* ends, and how many rows there are
Content(N, E) ==
    [nodes |-> {[kind |-> n.kind, name |-> n.name, pkg |-> n.pkg] : n \in N},
     edges |-> {[from |-> {n.name : n \in {m \in N : m.id = e.from}},
                 to |-> {n.name : n \in {m \in N : m.id = e.to}},
                 kind |-> e.kind] : e \in E},
     nodeCount |-> Cardinality(N),
     edgeCount |-> Cardinality(E)]

\* what a full analysis of the tree stores
FullContent(cg, pkgs) ==
    LET projectPkgs == {pkgs[i] : i \in 1..Len(pkgs)}
        nodeOrder == CHOOSE o \in NodeOrders(cg, projectPkgs, NilTargets) : TRUE
        edgeOrder == CHOOSE o \in EdgeOrders(cg, projectPkgs, NilTargets) : TRUE
        built == Build(cg, projectPkgs, NilTargets, {}, {}, nodeOrder, edgeOrder)
    IN  Content(built.nodes, built.edges)

\* the edges of the store between the nodes named a and b
EdgesBetween(N, E, a, b) ==
    {e \in E : \E n \in N, m \in N :
                  n.name = a /\ m.name = b /\ e.from = n.id /\ e.to = m.id}

\* the edges both of whose ends are nodes outside the packages M
EdgesOutside(N, E, M) ==
    {e \in E : e.from \in Ids(NodesNotIn(N, M)) /\ e.to \in Ids(NodesNotIn(N, M))}

(***************************************************************************)
(* SpecStore: a caller of the storage API. Each action is one API call on  *)
(* an open database; last records the call and its result.                 *)
(***************************************************************************)
StoreKinds == {"func"}
StoreNames == {"f"}
StorePkgs  == {"p", "q"}
StoreEdgeKinds == {"calls"}


InitStore ==
    /\ nodes = OpenedEmpty.nodes
    /\ edges = OpenedEmpty.edges
    /\ last = NoCall
    /\ cte = NoQuery
    /\ tree = NoTree
    /\ watch = NoWatch
    /\ proj = NoProj
    /\ report = NoReport

CallInsertNode ==
    \E kind \in StoreKinds, name \in StoreNames, pkg \in StorePkgs :
        /\ NextRowId(nodes) <= MaxRowId
        /\ LET r == InsertNode(nodes, kind, name, pkg)
           IN  /\ nodes' = r.nodes
               /\ last' = [NoCall EXCEPT !.op = "InsertNode", !.id = r.id]
        /\ UNCHANGED edges

CallInsertEdge ==
    \E from \in 1..MaxRowId, to \in 1..MaxRowId, kind \in StoreEdgeKinds :
        /\ NextRowId(edges) <= MaxRowId
        /\ LET r == InsertEdge(nodes, edges, from, to, kind)
           IN  /\ edges' = r.edges
               /\ last' = [NoCall EXCEPT !.op = "InsertEdge", !.from = from,
                                         !.to = to, !.err = r.err]
        /\ UNCHANGED nodes

CallDeleteNodesByPackage ==
    \E pkgs \in SUBSET StorePkgs, fail \in DeleteFailures :
        LET r == DeleteNodesByPackage(nodes, edges, pkgs, fail)
        IN  /\ nodes' = r.nodes
            /\ edges' = r.edges
            /\ last' = [NoCall EXCEPT !.op = "DeleteNodesByPackage", !.pkgs = pkgs,
                                      !.err = r.err]

CallDeleteOrphanEdges ==
    \E fail \in BOOLEAN :
        LET r == DeleteOrphanEdges(nodes, edges, fail)
        IN  /\ edges' = r.edges
            /\ last' = [NoCall EXCEPT !.op = "DeleteOrphanEdges", !.err = r.err]
            /\ UNCHANGED nodes

CallClear ==
    \E fail \in ClearFailures :
        LET r == Clear(nodes, edges, fail)
        IN  /\ nodes' = r.nodes
            /\ edges' = r.edges
            /\ last' = [NoCall EXCEPT !.op = "Clear", !.err = r.err]

NextStore ==
    /\ \/ CallInsertNode
       \/ CallInsertEdge
       \/ CallDeleteNodesByPackage
       \/ CallDeleteOrphanEdges
       \/ CallClear
    /\ UNCHANGED <<cte, tree, watch, proj, report>>

SpecStore == InitStore /\ [][NextStore]_vars

\* every edge row references rows of nodes (what the foreign keys enforce)
NoOrphanEdges == \A e \in edges : ForeignKeysHold(nodes, e)

(***************************************************************************)
(* C4: deleteByModules (DeleteNodesByPackage) is atomic: after it returns, *)
(* either the matching nodes and every edge touching them are all removed  *)
(* or nothing was removed; never the edges gone and the nodes still there. *)
(***************************************************************************)
C4_DeleteAtomic ==
    [][ last'.op = "DeleteNodesByPackage" =>
          \/ /\ nodes' = NodesNotIn(nodes, last'.pkgs)
             /\ edges' = EdgesNotTouching(nodes, edges, last'.pkgs)
          \/ /\ nodes' = nodes
             /\ edges' = edges ]_vars

(***************************************************************************)
(* C8: insertEdge with a from_id or to_id that is no stored node's id      *)
(* returns an error and leaves nodes and edges exactly as they were.       *)
(***************************************************************************)
C8_InsertEdgeUnknownEndpoint ==
    [][ (last'.op = "InsertEdge" /\ ~(last'.from \in Ids(nodes) /\ last'.to \in Ids(nodes))) =>
          /\ last'.err
          /\ nodes' = nodes
          /\ edges' = edges ]_vars

\* an InsertEdge naming an unknown endpoint was made on a store that holds
\* nodes and edges, and was refused
C8_Witness ==
    /\ last.op = "InsertEdge"
    /\ last.err
    /\ ~(last.from \in Ids(nodes) /\ last.to \in Ids(nodes))
    /\ nodes # {}
    /\ edges # {}

(***************************************************************************)
(* SpecBuild: Build on a new database. The call graph has a function A of  *)
(* package m/a with its closures A$1 and A$1$1, a function B of package    *)
(* m/ba and the library function fmt.Println; every caller has two call    *)
(* sites, each of them empty or calling one function.                      *)
(***************************************************************************)
FnA == Fn(PkgA, "A", <<>>)
FnA1 == Fn(PkgA, "A", <<1>>)
FnA11 == Fn(PkgA, "A", <<1, 1>>)
FnB == Fn(PkgBA, "B", <<>>)
FnC == Fn(PkgBA, "C", <<>>)
FnPrintln == Fn(<<"f", "m", "t">>, "Println", <<>>)

BuildFns == {FnA, FnA1, FnA11, FnB, FnPrintln}
BuildCallers == {FnA, FnA1, FnA11, FnB}
BuildCallees == {FnA, FnA1, FnB, FnPrintln}
Sites == {1, 2}

BuildCalls ==
    {[caller |-> f, callee |-> g, site |-> i] : f \in BuildCallers, g \in BuildCallees, i \in Sites}

\* the subsets of S with at most k members
RECURSIVE SubsetsUpTo(_, _)
SubsetsUpTo(S, k) ==
    IF k = 0 THEN {{}}
    ELSE LET smaller == SubsetsUpTo(S, k - 1)
         IN  smaller \cup {p \cup {x} : p \in smaller, x \in S}

\* a call site calls one function
OneCalleePerSite(cs) ==
    \A c \in cs, d \in cs : (c.caller = d.caller /\ c.site = d.site) => c = d

BuildGraphs ==
    {[fns |-> BuildFns, calls |-> cs] :
        cs \in {x \in SubsetsUpTo(BuildCalls, MaxBuildCalls) : OneCalleePerSite(x)}}

InitBuild ==
    /\ nodes = OpenedEmpty.nodes
    /\ edges = OpenedEmpty.edges
    /\ last = NoCall
    /\ cte = NoQuery
    /\ tree = NoTree
    /\ watch = NoWatch
    /\ report = NoReport
    /\ proj \in {[base |-> g, cg |-> g] : g \in BuildGraphs}

CallBuild ==
    /\ last.op = "Open"
    /\ LET projectPkgs == {LoadedPkgs[i] : i \in 1..Len(LoadedPkgs)}
       IN  \E nodeOrder \in NodeOrders(proj.cg, projectPkgs, NilTargets),
              edgeOrder \in EdgeOrders(proj.cg, projectPkgs, NilTargets) :
               \E r \in {Build(proj.cg, projectPkgs, NilTargets, nodes, edges,
                              nodeOrder, edgeOrder)} :
                   /\ nodes' = r.nodes
                   /\ edges' = r.edges
                   /\ last' = [NoCall EXCEPT !.op = "Build", !.err = r.err]
    /\ UNCHANGED <<cte, tree, watch, proj, report>>

NextBuild == CallBuild

SpecBuild == InitBuild /\ [][NextBuild]_vars

\* the declared function a closure is written in, however deep
EnclosingFunction(f) == [f EXCEPT !.clo = <<>>]

(***************************************************************************)
(* C10: when A reaches B only through closures defined inside A (nested    *)
(* to any depth, at any number of call sites) and not by a call written in *)
(* A itself, the store holds exactly one edge A -> B after the build, and  *)
(* no edge A -> A.                                                         *)
(***************************************************************************)
C10_ClosureCallsMerged ==
    last.op = "Build" =>
        \A a \in {FnA}, b \in {FnB} :
            ( /\ \E c \in proj.cg.calls :
                    isClosure(c.caller) /\ EnclosingFunction(c.caller) = a /\ c.callee = b
              /\ ~\E c \in proj.cg.calls : c.caller = a /\ c.callee = b )
            => /\ Cardinality(EdgesBetween(nodes, edges, a, b)) = 1
               /\ EdgesBetween(nodes, edges, a, a) = {}

\* built: B is called from A$1 and from the nested closure A$1$1, which also
\* calls back into A, never from A itself, and there is one edge A -> B
C10_Witness ==
    /\ last.op = "Build"
    /\ \E c \in proj.cg.calls : c.caller = FnA1 /\ c.callee = FnB
    /\ \E c \in proj.cg.calls : c.caller = FnA11 /\ c.callee = FnB
    /\ \E c \in proj.cg.calls : c.caller = FnA11 /\ c.callee = FnA
    /\ ~\E c \in proj.cg.calls : c.caller = FnA /\ c.callee = FnB
    /\ Cardinality(EdgesBetween(nodes, edges, FnA, FnB)) = 1

(***************************************************************************)
(* C11: a direct recursive call written in the body of A itself (no        *)
(* closure involved) is stored after the build as a calls edge from A to   *)
(* A; only self-loops that come from closure resolution are dropped.       *)
(***************************************************************************)
C11_DirectRecursionStored ==
    (last.op = "Build" /\ \E c \in proj.cg.calls : c.caller = FnA /\ c.callee = FnA)
        => EdgesBetween(nodes, edges, FnA, FnA) # {}

(***************************************************************************)
(* C12: after a build no stored node is a closure, and every stored calls  *)
(* edge joins two stored function nodes that are not closures and are the  *)
(* enclosing declared functions of the two ends of some call; resolving a  *)
(* name through closureParent ends, for every function, at its enclosing   *)
(* declared function.                                                      *)
(***************************************************************************)
C12_OnlyAddressableStored ==
    last.op = "Build" =>
        /\ \A n \in nodes : n.kind = "func" /\ ~isClosure(n.name)
        /\ \A e \in edges :
              \E n \in nodes, m \in nodes :
                  /\ n.id = e.from /\ m.id = e.to /\ e.kind = "calls"
                  /\ \E c \in proj.cg.calls :
                        /\ EnclosingFunction(c.caller) = n.name
                        /\ EnclosingFunction(c.callee) = m.name
        /\ \A f \in {g \in proj.cg.fns : g.pkg \in {PkgA, PkgBA}} :
              resolveToParent(ClosureParents(proj.cg, {PkgA, PkgBA}), f) = EnclosingFunction(f)

\* built: the nested closure A$1$1 calls B and B calls the closure A$1, and
\* the store holds the edges A -> B and B -> A
C12_Witness ==
    /\ last.op = "Build"
    /\ \E c \in proj.cg.calls : c.caller = FnA11 /\ c.callee = FnB
    /\ \E c \in proj.cg.calls : c.caller = FnB /\ c.callee = FnA1
    /\ EdgesBetween(nodes, edges, FnA, FnB) # {}
    /\ EdgesBetween(nodes, edges, FnB, FnA) # {}

(***************************************************************************)
(* SpecAnalyze: the analyze command run on a project under git. The tree   *)
(* at the git base has A and its closure A$1 in package m/a and B and C in *)
(* package m/ba; the working tree is the base or the base with one call    *)
(* added or removed.                                                       *)
(***************************************************************************)
AnalyzeFns == {FnA, FnA1, FnB, FnC}

AnalyzeCalls ==
    {[caller |-> FnA, callee |-> FnA1, site |-> 1],
     [caller |-> FnA, callee |-> FnB, site |-> 2],
     [caller |-> FnA1, callee |-> FnB, site |-> 1],
     [caller |-> FnB, callee |-> FnC, site |-> 1],
     [caller |-> FnB, callee |-> FnA1, site |-> 2]}

InitAnalyze ==
    /\ nodes = OpenedEmpty.nodes
    /\ edges = OpenedEmpty.edges
    /\ last = NoCall
    /\ cte = NoQuery
    /\ tree = NoTree
    /\ watch = NoWatch
    /\ report = NoReport
    /\ proj \in {[base |-> [fns |-> AnalyzeFns, calls |-> cs],
                  cg |-> [fns |-> AnalyzeFns, calls |-> cs]] :
                    cs \in {x \in SUBSET AnalyzeCalls : Cardinality(x) <= MaxTreeCalls}}

\* one edit of a file of the unchanged working tree: a call comes or goes
EditSource ==
    /\ proj.cg = proj.base
    /\ \E c \in AnalyzeCalls :
        proj' = [proj EXCEPT !.cg.calls =
                    IF c \in proj.cg.calls THEN proj.cg.calls \ {c}
                    ELSE proj.cg.calls \cup {c}]
    /\ UNCHANGED <<nodes, edges, last, cte, tree, watch, report>>

\* crag analyze [-i]
AnalyzeCmd ==
    /\ \E incremental \in BOOLEAN :
       \E gitErr \in IF incremental THEN BOOLEAN ELSE {FALSE} :
        LET pkgs == LoadedPkgs
            projectPkgs == {pkgs[i] : i \in 1..Len(pkgs)}
            changedDirs == GetGitChanges(proj.base, proj.cg, pkgs)
            targetPkgs == TargetsOf(pkgs, incremental, gitErr, changedDirs)
        IN  \E delFail \in IF targetPkgs.nil THEN {"none"} ELSE DeleteFailures :
            \E sweepFail \in IF targetPkgs.nil \/ delFail # "none" THEN {FALSE} ELSE BOOLEAN :
            \E clearFail \in IF targetPkgs.nil \/ delFail # "none" THEN ClearFailures
                             ELSE {"none"} :
                LET before == analyzeCmdBefore(nodes, edges, pkgs, incremental, gitErr,
                                               changedDirs, delFail, clearFail)
                IN  \E nodeOrder \in IF before.returns THEN {<<>>}
                                     ELSE NodeOrders(proj.cg, projectPkgs, targetPkgs) :
                    \E edgeOrder \in IF before.returns THEN {<<>>}
                                     ELSE EdgeOrders(proj.cg, projectPkgs, targetPkgs) :
                        \E r \in {analyzeCmd(nodes, edges, proj.cg, pkgs, incremental, gitErr,
                                            changedDirs, delFail, sweepFail, clearFail,
                                            nodeOrder, edgeOrder)} :
                            /\ nodes' = r.nodes
                            /\ edges' = r.edges
                            /\ last' = [NoCall EXCEPT
                                          !.op = IF r.skipped THEN "analyze: no changes"
                                                 ELSE "analyze",
                                          !.pkgs = r.changedPackages,
                                          !.err = r.err,
                                          !.incremental = r.incremental,
                                          !.fallback = r.fallback]
    /\ UNCHANGED <<cte, tree, watch, proj, report>>

NextAnalyze == EditSource \/ AnalyzeCmd

SpecAnalyze == InitAnalyze /\ [][NextAnalyze]_vars

\* the last command was an incremental analysis that deleted the changed
\* packages and built them again
ScopedRunDone(l) == l.op = "analyze" /\ l.incremental /\ ~l.fallback /\ ~l.err

(***************************************************************************)
(* C3: when the scoped delete of an incremental analysis fails, the run    *)
(* clears the store and ingests the whole tree again, with no restriction  *)
(* to the changed packages: the store then holds what a full analysis of   *)
(* the tree stores.                                                        *)
(***************************************************************************)
C3_FallbackIsFullRebuild ==
    (last.op = "analyze" /\ last.incremental /\ last.fallback /\ ~last.err)
        => Content(nodes, edges) = FullContent(proj.cg, LoadedPkgs)

(***************************************************************************)
(* C5: after every incremental analysis that returns without error, every  *)
(* edge in the store has both of its endpoints in the store.               *)
(***************************************************************************)
C5_NoOrphanAfterIncremental ==
    (last.op = "analyze" /\ last.incremental /\ ~last.err) => NoOrphanEdges

\* a scoped run is done whose orphan sweep had nothing to do, on a store that
\* keeps nodes of an unchanged package and holds edges
C5_Witness ==
    /\ ScopedRunDone(last)
    /\ NodesNotIn(nodes, last.pkgs) # {}
    /\ IdsOfPackages(nodes, last.pkgs) # {}
    /\ edges # {}
    /\ proj.base.calls # {}

(***************************************************************************)
(* C6: an incremental analysis of the changed packages M (scoped delete,   *)
(* then ingestion restricted to M) leaves every node outside M and every   *)
(* edge with both endpoints outside M as it was, and leaves no edge that   *)
(* references a node that is not stored.                                   *)
(***************************************************************************)
C6_OutsideUntouched ==
    [][ ScopedRunDone(last') =>
          /\ NodesNotIn(nodes', last'.pkgs) = NodesNotIn(nodes, last'.pkgs)
          /\ EdgesOutside(nodes', edges', last'.pkgs) = EdgesOutside(nodes, edges, last'.pkgs)
          /\ \A e \in edges' : ForeignKeysHold(nodes', e) ]_vars

\* a scoped run is done and the store has nodes in M, nodes outside M and an
\* edge between nodes outside M
C6_Witness ==
    /\ ScopedRunDone(last)
    /\ IdsOfPackages(nodes, last.pkgs) # {}
    /\ NodesNotIn(nodes, last.pkgs) # {}
    /\ EdgesOutside(nodes, edges, last.pkgs) # {}

(***************************************************************************)
(* C7: an incremental analysis of the changed packages, run on a store     *)
(* that holds the full analysis of the tree at the git base, leaves the    *)
(* store with the nodes and edges a full analysis of the working tree      *)
(* stores, the edges between packages included.                            *)
(***************************************************************************)
C7_IncrementalEqualsFull ==
    [][ ( /\ Content(nodes, edges) = FullContent(proj.base, LoadedPkgs)
          /\ ScopedRunDone(last') )
        => Content(nodes', edges') = FullContent(proj'.cg, LoadedPkgs) ]_vars


(***************************************************************************)
(* Name lookup: GetNodeByName and FindNodesByPattern.  Names are sequences *)
(* of characters; the alphabet is the characters of the names and          *)
(* patterns of SpecImpact.                                                 *)
(***************************************************************************)
\* SQLite's LIKE folds the case of ASCII letters
AsciiLower(c) ==
    CASE c = "R" -> "r"
      [] c = "S" -> "s"
      [] c = "V" -> "v"
      [] c = "Z" -> "z"
      [] OTHER -> c

\* SQLite's LIKE: % is any run of characters, _ any one character, every
\* other character matches itself up to ASCII case
RECURSIVE Like(_, _)
Like(s, pat) ==
    IF pat = <<>> THEN s = <<>>
    ELSE IF Head(pat) = "%" THEN Like(s, Tail(pat)) \/ (s # <<>> /\ Like(Tail(s), pat))
    ELSE /\ s # <<>>
         /\ Head(pat) = "_" \/ AsciiLower(Head(pat)) = AsciiLower(Head(s))
         /\ Like(Tail(s), Tail(pat))

\* GetNodeByName: WHERE name = ?, the first row; no row is sql.ErrNoRows
GetNodeByName(N, name) ==
    LET rows == RowsInOrder({n \in N : n.name = name})
    IN  IF rows = <<>> THEN [err |-> TRUE, node |-> 0] ELSE [err |-> FALSE, node |-> rows[1].id]

\* the CASE without its first WHEN: a short-name match ranks as any other
\* name that ends with the pattern
MatchQuality_EndsOnly(name, pattern) ==
    IF Like(name, <<"%">> \o pattern) THEN 1 ELSE 2

\* the CASE of FindNodesByPattern's ORDER BY
MatchQuality(name, pattern) ==
    IF Like(name, <<"%", ".">> \o pattern) \/ Like(name, <<"%", ")", ".">> \o pattern) THEN 0
    ELSE IF Like(name, <<"%">> \o pattern) THEN 1
    ELSE 2

\* ORDER BY match quality, then length(name); rows that tie come in the
\* order of the table scan
RECURSIVE OrderByQuality(_, _)
OrderByQuality(rows, pattern) ==
    IF rows = {} THEN <<>>
    ELSE LET key(n) == <<MatchQuality(n.name, pattern), Len(n.name), n.id>>
             before(a, b) == \/ a[1] < b[1]
                             \/ a[1] = b[1] /\ a[2] < b[2]
                             \/ a[1] = b[1] /\ a[2] = b[2] /\ a[3] <= b[3]
             r == CHOOSE x \in rows : \A y \in rows : before(key(x), key(y))
         IN  <<r>> \o OrderByQuality(rows \ {r}, pattern)

\* FindNodesByPattern takes the first match instead of returning them all
FindNodesByPattern_FirstOnly(N, pattern) ==
    LET all == OrderByQuality({n \in N : Like(n.name, <<"%">> \o pattern \o <<"%">>)}, pattern)
    IN  IF all = <<>> THEN <<>> ELSE <<all[1]>>

\* FindNodesByPattern: WHERE name LIKE '%pattern%', every row, best first
FindNodesByPattern(N, pattern) ==
    OrderByQuality({n \in N : Like(n.name, <<"%">> \o pattern \o <<"%">>)}, pattern)

\* referencingUnits(id): the callable units with a references edge into the
\* node
GetReferencingFunctions(N, E, id) ==
    {n.id : n \in {x \in N : /\ x.kind = "func"
                              /\ \E e \in E : e.from = x.id /\ e.to = id /\ e.kind = "references"}}

(***************************************************************************)
(* AnalyzeImpact(funcName, upstreamDepth, downstreamDepth), a step for     *)
(* each stretch of it between two recursive queries.                       *)
(***************************************************************************)
\* the lookup at the head of AnalyzeImpact: the exact name, else the pattern
ImpactLookup(N, funcName) ==
    LET exact == GetNodeByName(N, funcName)
        found == FindNodesByPattern(N, funcName)
    IN  IF ~exact.err THEN [outcome |-> "target", target |-> exact.node, candidates |-> <<>>]
        ELSE IF Len(found) = 0 THEN [outcome |-> "not found", target |-> 0, candidates |-> <<>>]
        ELSE IF Len(found) > 1
             THEN [outcome |-> "ambiguous", target |-> 0,
                   candidates |-> [i \in 1..Len(found) |-> found[i].name]]
        ELSE [outcome |-> "target", target |-> found[1].id, candidates |-> <<>>]

KindOf(N, id) == (CHOOSE n \in N : n.id = id).kind

\* from "Get direct callees" to the downstream query or the return
ImpactCallees(N, E, r, q) ==
    LET r1 == [r EXCEPT !.DirectCallees = Range(GetDirectCallees(N, E, r.target))]
    IN  IF r.downstreamDepth # 1
        THEN [report |-> [r1 EXCEPT !.pc = "downstream"],
              cte |-> CteStart(N, E, "down", r.target, r.downstreamDepth)]
        ELSE [report |-> [r1 EXCEPT !.pc = "done", !.outcome = "report"], cte |-> q]

\* the var/const branch treats the target as a function
ImpactTarget_NoVarBranch(N, E, r, q) ==
    LET r1 == [r EXCEPT !.DirectCallers = Range(GetDirectCallers(N, E, r.target))]
    IN  IF r.upstreamDepth # 1
        THEN [report |-> [r1 EXCEPT !.pc = "upstream"],
              cte |-> CteStart(N, E, "up", r.target, r.upstreamDepth)]
        ELSE ImpactCallees(N, E, r1, q)

\* from the found target to the upstream query, the downstream query or the
\* return
ImpactTarget(N, E, r, q) ==
    IF KindOf(N, r.target) \in {"var", "const"}
    THEN [report |-> [r EXCEPT !.DirectCallers = GetReferencingFunctions(N, E, r.target),
                               !.pc = "done", !.outcome = "report"],
          cte |-> q]
    ELSE LET r1 == [r EXCEPT !.DirectCallers = Range(GetDirectCallers(N, E, r.target))]
         IN  IF r.upstreamDepth # 1
             THEN [report |-> [r1 EXCEPT !.pc = "upstream"],
                   cte |-> CteStart(N, E, "up", r.target, r.upstreamDepth)]
             ELSE ImpactCallees(N, E, r1, q)

\* the indirect callers are all the upstream callers
ImpactUpstream_NoFilter(N, E, r, q) ==
    ImpactCallees(N, E, [r EXCEPT !.IndirectCallers = q.result], q)

\* GetUpstreamCallers has returned: filter out the direct callers, go on
ImpactUpstream(N, E, r, q) ==
    ImpactCallees(N, E, [r EXCEPT !.IndirectCallers = q.result \ r.DirectCallers], q)

\* GetDownstreamCallees has returned: filter out the direct callees, return
ImpactDownstream(r, q) ==
    [r EXCEPT !.IndirectCallees = q.result \ r.DirectCallees, !.pc = "done", !.outcome = "report"]

AnalyzeImpactStart(N, E, funcName, upstreamDepth, downstreamDepth, q) ==
    LET l == ImpactLookup(N, funcName)
        r == [NoReport EXCEPT !.op = "AnalyzeImpact", !.funcName = funcName,
                              !.upstreamDepth = upstreamDepth,
                              !.downstreamDepth = downstreamDepth, !.target = l.target]
    IN  IF l.outcome # "target"
        THEN [report |-> [r EXCEPT !.pc = "done", !.outcome = l.outcome,
                                   !.candidates = l.candidates],
              cte |-> q]
        ELSE ImpactTarget(N, E, r, q)

(***************************************************************************)
(* SpecImpact: a stored graph of three functions and a variable or         *)
(* constant, calls edges between the functions and references edges from   *)
(* functions into the variable, and one AnalyzeImpact call on it.          *)
(***************************************************************************)
ImpactNames == <<<<"a", ".", "R">>, <<"b", ".", "R">>, <<"a", ".", "R", "S">>, <<"a", ".", "V">>>>
VarId == 4

ImpactNode(i, kind) == [id |-> i, kind |-> kind, name |-> ImpactNames[i], pkg |-> ImpactNames[i][1]]

ImpactPairs == QPairs \cup {<<i, VarId>> : i \in QNodeIds}

\* the edges of BuildCallGraph are calls edges, those of BuildVarConstGraph
\* references edges from a function to a var or const
RECURSIVE NumberImpactEdges(_, _)
NumberImpactEdges(pairs, nextId) ==
    IF pairs = {} THEN {}
    ELSE LET p == CHOOSE x \in pairs : \A y \in pairs :
                      x[1] < y[1] \/ (x[1] = y[1] /\ x[2] <= y[2])
         IN  {[id |-> nextId, from |-> p[1], to |-> p[2],
               kind |-> IF p[2] = VarId THEN "references" ELSE "calls"]}
                 \cup NumberImpactEdges(pairs \ {p}, nextId + 1)

\* a short name of several nodes, a full name that is also the head of another
\* name, full names in lower case, the variable's short name, no node's name
ImpactInputs == {<<"R">>, <<"a", ".", "R">>, <<"a", ".", "r">>, <<"b", ".", "r">>, <<"V">>, <<"Z">>}

InitImpact ==
    /\ \E kind \in {"var", "const"} :
          nodes = {ImpactNode(i, "func") : i \in QNodeIds} \cup {ImpactNode(VarId, kind)}
    /\ \E S \in SUBSET ImpactPairs :
          /\ Cardinality(S) <= MaxQEdges
          /\ edges = NumberImpactEdges(S, 1)
    /\ last = NoCall
    /\ cte = NoQuery
    /\ tree = NoTree
    /\ watch = NoWatch
    /\ proj = NoProj
    /\ report = NoReport

CallAnalyzeImpact ==
    /\ report.pc = "none"
    /\ \E funcName \in ImpactInputs, up \in 0..MaxDepthArg, down \in 0..MaxDepthArg :
         \E r \in {AnalyzeImpactStart(nodes, edges, funcName, up, down, cte)} :
            /\ report' = r.report
            /\ cte' = r.cte
    /\ UNCHANGED <<nodes, edges, last, tree, watch, proj>>

UpstreamReturns ==
    /\ report.pc = "upstream"
    /\ cte.pc = "run"
    /\ cte.queue = <<>>
    /\ \E r \in {ImpactUpstream(nodes, edges, report, CteFinish(cte))} :
          /\ report' = r.report
          /\ cte' = r.cte
    /\ UNCHANGED <<nodes, edges, last, tree, watch, proj>>

DownstreamReturns ==
    /\ report.pc = "downstream"
    /\ cte.pc = "run"
    /\ cte.queue = <<>>
    /\ report' = ImpactDownstream(report, CteFinish(cte))
    /\ cte' = CteFinish(cte)
    /\ UNCHANGED <<nodes, edges, last, tree, watch, proj>>

NextImpact == CallAnalyzeImpact \/ QueryRound \/ UpstreamReturns \/ DownstreamReturns

SpecImpact == InitImpact /\ [][NextImpact]_vars


\* the name contains the pattern, up to ASCII case
Contains(name, pattern) ==
    \E i \in 0..(Len(name) - Len(pattern)) :
        \A j \in 1..Len(pattern) : AsciiLower(name[i + j]) = AsciiLower(pattern[j])

PatternMatches == {n \in nodes : Contains(n.name, report.funcName)}

\* the ambiguous-match outcome: the names of all the matches, no target and
\* no list of a report
AmbiguousMatch ==
    /\ report.outcome = "ambiguous"
    /\ Len(report.candidates) = Cardinality(PatternMatches)
    /\ Range(report.candidates) = {n.name : n \in PatternMatches}
    /\ report.target = 0
    /\ report.DirectCallers = {} /\ report.IndirectCallers = {}
    /\ report.DirectCallees = {} /\ report.IndirectCallees = {}

(***************************************************************************)
(* C15 as stated: whenever the name given to AnalyzeImpact matches more    *)
(* than one node by pattern, the outcome is the ambiguous-match result     *)
(* with the complete candidate list and no report.                         *)
(***************************************************************************)
C15_AmbiguousWheneverSeveralMatch ==
    (report.op = "AnalyzeImpact" /\ Cardinality(PatternMatches) > 1) => AmbiguousMatch

(***************************************************************************)
(* C15 amended: the outcome is the ambiguous-match result, with the        *)
(* complete candidate list and no report, exactly when no node has the     *)
(* given name as its full name and more than one node matches it by        *)
(* pattern; a full name always selects its node.                           *)
(***************************************************************************)
C15_AmbiguousUnlessExact ==
    report.op = "AnalyzeImpact" =>
        /\ ((\A n \in nodes : n.name # report.funcName) /\ Cardinality(PatternMatches) > 1)
              <=> report.outcome = "ambiguous"
        /\ report.outcome = "ambiguous" => AmbiguousMatch
        /\ \A n \in nodes : n.name = report.funcName => report.target = n.id

C15_Witness ==
    /\ report.op = "AnalyzeImpact"
    /\ report.outcome = "ambiguous"
    /\ Len(report.candidates) = 3
    /\ edges # {}


\* upstream(target, depth) and downstream(target, depth) as sets: the nodes
\* within depth calls edges of the target, all that reach it when depth is 0
Transitive(dir, depth) ==
    ReachWithin(nodes, edges, {report.target}, dir, IF depth = 0 THEN Cardinality(nodes) ELSE depth)

CallersOfTarget == {e.from : e \in {x \in edges : x.to = report.target /\ x.kind = "calls"}}
CalleesOfTarget == {e.to : e \in {x \in edges : x.from = report.target /\ x.kind = "calls"}}

ReportOnFunction ==
    /\ report.op = "AnalyzeImpact"
    /\ report.outcome = "report"
    /\ KindOf(nodes, report.target) = "func"

(***************************************************************************)
(* C18: in a report computed with an upstream depth other than 1, the      *)
(* indirect callers are upstream(target, depth) minus the direct callers,  *)
(* as sets: direct and indirect callers are disjoint and their union is    *)
(* the whole transitive caller set.  The same holds for the callees with   *)
(* the downstream depth.                                                   *)
(***************************************************************************)
C18_IndirectIsTransitiveMinusDirect ==
    ReportOnFunction =>
        /\ report.upstreamDepth # 1 =>
              /\ report.DirectCallers = CallersOfTarget
              /\ report.IndirectCallers = Transitive("up", report.upstreamDepth) \ CallersOfTarget
              /\ report.DirectCallers \cap report.IndirectCallers = {}
              /\ report.DirectCallers \cup report.IndirectCallers = Transitive("up", report.upstreamDepth)
        /\ report.downstreamDepth # 1 =>
              /\ report.DirectCallees = CalleesOfTarget
              /\ report.IndirectCallees = Transitive("down", report.downstreamDepth) \ CalleesOfTarget
              /\ report.DirectCallees \cap report.IndirectCallees = {}
              /\ report.DirectCallees \cup report.IndirectCallees = Transitive("down", report.downstreamDepth)

\* a report with indirect callers and indirect callees, one of whose direct
\* callers is also a caller of a caller
C18_Witness ==
    /\ ReportOnFunction
    /\ report.upstreamDepth = 3 /\ report.downstreamDepth = 2
    /\ report.IndirectCallers # {} /\ report.IndirectCallees # {}
    /\ report.DirectCallers \cap ReachWithin(nodes, edges, report.DirectCallers, "up", 2) # {}

(***************************************************************************)
(* C19: for a variable or constant target the report's direct callers are  *)
(* exactly the function nodes with a references edge into the target, and  *)
(* its indirect callers, direct callees and indirect callees are empty.    *)
(***************************************************************************)
C19_VarConstReport ==
    (/\ report.op = "AnalyzeImpact"
     /\ report.target # 0
     /\ KindOf(nodes, report.target) \in {"var", "const"}) =>
        /\ report.pc = "done" /\ report.outcome = "report"
        /\ report.DirectCallers =
              {n.id : n \in {x \in nodes : /\ x.kind = "func"
                                           /\ \E e \in edges : /\ e.kind = "references"
                                                               /\ e.from = x.id
                                                               /\ e.to = report.target}}
        /\ report.IndirectCallers = {}
        /\ report.DirectCallees = {}
        /\ report.IndirectCallees = {}

C19_Witness ==
    /\ report.op = "AnalyzeImpact"
    /\ report.outcome = "report"
    /\ KindOf(nodes, report.target) = "const"
    /\ Cardinality(report.DirectCallers) = 2
    /\ \E e \in edges : e.kind = "calls"
    /\ report.upstreamDepth = 0 /\ report.downstreamDepth = 2


(***************************************************************************)
(* Risk: GetRiskScore and the functions around it.                         *)
(***************************************************************************)
\* GetDirectCallerCount: SELECT COUNT(*) FROM edges WHERE to_id = ? AND
\* kind = 'calls'
GetDirectCallerCount(E, id) == Cardinality({e \in E : e.to = id /\ e.kind = "calls"})

\* the ids of GetTotalCallerCount's recursive query: the callers within 50
\* calls edges
RECURSIVE CallersWithin(_, _, _, _)
CallersWithin(E, frontier, seen, k) ==
    IF k = 0 \/ frontier = {} THEN seen
    ELSE LET step == {e.from : e \in {x \in E : x.to \in frontier /\ x.kind = "calls"}}
         IN  CallersWithin(E, step \ seen, seen \cup step, k - 1)

\* GetTotalCallerCount: SELECT COUNT(DISTINCT id) FROM callers
GetTotalCallerCount(E, id) == Cardinality(CallersWithin(E, {id}, {}, 50))

CalculateRiskLevel(directCallers, totalCallers) ==
    IF directCallers >= 50 \/ totalCallers >= 200 THEN "critical"
    ELSE IF directCallers >= 20 \/ totalCallers >= 100 THEN "high"
    ELSE IF directCallers >= 5 \/ totalCallers >= 30 THEN "medium"
    ELSE "low"

CalculateRiskLevelFast(directCallers) ==
    IF directCallers >= 50 THEN "critical"
    ELSE IF directCallers >= 20 THEN "high"
    ELSE IF directCallers >= 5 THEN "medium"
    ELSE "low"

\* GetRiskScore runs the recursive count and classifies by both counts
GetRiskScore_WithTotal(N, E, nodeID) ==
    IF nodeID \notin Ids(N)
    THEN [NoReport EXCEPT !.op = "GetRiskScore", !.pc = "done", !.outcome = "error"]
    ELSE LET directCallers == GetDirectCallerCount(E, nodeID)
             totalCallers == GetTotalCallerCount(E, nodeID)
         IN  [NoReport EXCEPT !.op = "GetRiskScore", !.pc = "done", !.outcome = "score",
                              !.target = nodeID, !.DirectCount = directCallers,
                              !.TotalCallers = totalCallers, !.MaxDepth = 0,
                              !.RiskLevel = CalculateRiskLevel(directCallers, totalCallers)]

\* GetRiskScore: GetNodeByID, the direct count, and a score made of it alone
GetRiskScore(N, E, nodeID) ==
    IF nodeID \notin Ids(N)
    THEN [NoReport EXCEPT !.op = "GetRiskScore", !.pc = "done", !.outcome = "error"]
    ELSE LET directCallers == GetDirectCallerCount(E, nodeID)
         IN  [NoReport EXCEPT !.op = "GetRiskScore", !.pc = "done", !.outcome = "score",
                              !.target = nodeID, !.DirectCount = directCallers,
                              !.TotalCallers = directCallers, !.MaxDepth = 0,
                              !.RiskLevel = CalculateRiskLevelFast(directCallers)]

(***************************************************************************)
(* SpecRisk: a stored graph in which function 1 has d direct callers, the  *)
(* functions 2..d+1, and the first of them has t callers of its own, and   *)
(* one GetRiskScore call on it.                                            *)
(***************************************************************************)
RiskNode(i) == [id |-> i, kind |-> "func", name |-> i, pkg |-> "p"]

RiskGraph(d, t) ==
    [nodes |-> {RiskNode(i) : i \in 1..(1 + d + t)},
     edges |-> {[id |-> i - 1, from |-> i, to |-> IF i <= d + 1 THEN 1 ELSE 2, kind |-> "calls"] :
                   i \in 2..(1 + d + t)}]

RiskIds == {0, 1, 2}

InitRisk ==
    /\ \E d \in 0..MaxDirect, t \in 0..MaxFan :
          /\ d = 0 => t = 0
          /\ nodes = RiskGraph(d, t).nodes
          /\ edges = RiskGraph(d, t).edges
    /\ last = NoCall
    /\ cte = NoQuery
    /\ tree = NoTree
    /\ watch = NoWatch
    /\ proj = NoProj
    /\ report = NoReport

CallGetRiskScore ==
    /\ report.pc = "none"
    /\ \E nodeID \in RiskIds : report' = GetRiskScore(nodes, edges, nodeID)
    /\ UNCHANGED <<nodes, edges, last, cte, tree, watch, proj>>

NextRisk == CallGetRiskScore

SpecRisk == InitRisk /\ [][NextRisk]_vars

\* the callers of the scored node and all that reach it along calls edges
DirectFanIn == {e.from : e \in {x \in edges : x.to = report.target /\ x.kind = "calls"}}
TransitiveFanIn == DirectFanIn \cup {e.from : e \in {x \in edges : x.to \in DirectFanIn /\ x.kind = "calls"}}

(***************************************************************************)
(* C16: GetRiskScore classifies a node by its direct caller count only: 50 *)
(* or more is critical, 20 to 49 high, 5 to 19 medium and 0 to 4 low,      *)
(* whatever the node's transitive caller count is.                         *)
(***************************************************************************)
C16_RiskByDirectCallersOnly ==
    (report.op = "GetRiskScore" /\ report.outcome = "score") =>
        LET n == Cardinality(DirectFanIn)
        IN  /\ report.DirectCount = n
            /\ n \in 0..4 => report.RiskLevel = "low"
            /\ n \in 5..19 => report.RiskLevel = "medium"
            /\ n \in 20..49 => report.RiskLevel = "high"
            /\ n >= 50 => report.RiskLevel = "critical"

\* a function with 4 direct callers and 200 or more callers in all is low
C16_Witness ==
    /\ report.op = "GetRiskScore" /\ report.outcome = "score"
    /\ Cardinality(DirectFanIn) = 4
    /\ Cardinality(TransitiveFanIn) >= 200
    /\ report.RiskLevel = "low"

(***************************************************************************)
(* C17: the level reported for a function is critical when it has at least *)
(* 50 direct callers or at least 200 callers in all, high when at least 20 *)
(* direct or 100 in all, medium when at least 5 direct or 30 in all, and   *)
(* low otherwise.                                                          *)
(***************************************************************************)
C17_RiskByDirectOrTotal ==
    (report.op = "GetRiskScore" /\ report.outcome = "score") =>
        report.RiskLevel = CalculateRiskLevel(Cardinality(DirectFanIn), GetTotalCallerCount(edges, report.target))


(***************************************************************************)
(* internal/web: handleCallChain and its two tree builders.  A tree is the *)
(* set of its paths, a path the ids from a child of the target down to a   *)
(* tree node.                                                              *)
(***************************************************************************)
RECURSIVE buildChainTree(_, _, _, _, _, _, _)
RECURSIVE buildChainLoop(_, _, _, _, _, _, _)

\* buildCallersTree / buildCalleesTree below the target or a tree node: nil
\* when depth <= 0 or there are no callers, else the loop over them.  The
\* visited map is the caller's own map, so what is marked stays marked.
buildChainTree(N, E, dir, nodeID, depth, visited, path) ==
    IF depth <= 0 THEN [paths |-> {}, visited |-> visited]
    ELSE buildChainLoop(N, E, dir, TreeNeighbours(N, E, nodeID, dir), depth, visited, path)

\* "for _, caller := range callers": a visited caller is skipped, any other
\* is marked, gets its children when depth > 1, and is appended
buildChainLoop(N, E, dir, todo, depth, visited, path) ==
    IF todo = <<>> THEN [paths |-> {}, visited |-> visited]
    ELSE LET c == Head(todo)
         IN  IF c \in visited
             THEN buildChainLoop(N, E, dir, Tail(todo), depth, visited, path)
             ELSE LET sub == IF depth > 1
                             THEN buildChainTree(N, E, dir, c, depth - 1, visited \cup {c}, Append(path, c))
                             ELSE [paths |-> {}, visited |-> visited \cup {c}]
                      rest == buildChainLoop(N, E, dir, Tail(todo), depth, sub.visited, path)
                  IN  [paths |-> {Append(path, c)} \cup sub.paths \cup rest.paths,
                       visited |-> rest.visited]

buildCallersTree(N, E, nodeID, depth) == buildChainTree(N, E, "up", nodeID, depth, {}, <<>>).paths

buildCalleesTree(N, E, nodeID, depth) == buildChainTree(N, E, "down", nodeID, depth, {}, <<>>).paths

\* handleCallChain: 404 for an unknown id, else the two trees, each built
\* with a fresh map
handleCallChain(N, E, id, depth) ==
    IF id \notin Ids(N)
    THEN [NoReport EXCEPT !.op = "handleCallChain", !.pc = "done", !.outcome = "not found"]
    ELSE [NoReport EXCEPT !.op = "handleCallChain", !.pc = "done", !.outcome = "chain",
                          !.target = id, !.MaxDepth = depth,
                          !.Callers = buildCallersTree(N, E, id, depth),
                          !.Callees = buildCalleesTree(N, E, id, depth)]

(***************************************************************************)
(* SpecChain: a stored graph of functions, one call-tree request to the    *)
(* store's tree builder and one request to /api/chain/ on it.              *)
(***************************************************************************)
HandleCallChain ==
    /\ report.pc = "none"
    /\ \E id \in QNodeIds \cup {0}, depth \in 0..MaxDepthArg :
          report' = handleCallChain(nodes, edges, id, depth)
    /\ UNCHANGED <<nodes, edges, last, cte, tree, watch, proj>>

NextChain == StartTree \/ StepTreeCall \/ StepTreeLoop \/ HandleCallChain

SpecChain == InitTree /\ [][NextChain]_vars

\* the tree shows, under every one of its nodes that depth leaves room
\* below, each neighbour of that node that is not on the path from the root
ShowsEveryBranch(paths, root, dir, unlimited, depth) ==
    \A p \in paths \cup {<<>>} :
        LET at == IF p = <<>> THEN root ELSE p[Len(p)]
        IN  \A n \in Neighbours(nodes, edges, at, dir) :
                ((unlimited \/ Len(p) < depth) /\ n # root /\ n \notin Range(p))
                    => Append(p, n) \in paths

\* the store's tree builder, once it has returned
StoreTreeShowsEveryBranch ==
    tree.pc = "done" =>
        ShowsEveryBranch(tree.paths, tree.id, tree.dir, tree.maxDepth <= 0, tree.maxDepth)

\* the two trees of a /api/chain/ response
ChainTreeShowsEveryBranch ==
    (report.op = "handleCallChain" /\ report.outcome = "chain") =>
        /\ ShowsEveryBranch(report.Callers, report.target, "up", FALSE, report.MaxDepth)
        /\ ShowsEveryBranch(report.Callees, report.target, "down", FALSE, report.MaxDepth)

(***************************************************************************)
(* C20: when a node is reachable from the root through two different       *)
(* branches, the call tree shows it under each of them; only a node that   *)
(* is already on the path from the root is left out.  This holds for the   *)
(* store's tree builder and for the HTTP call-chain tree.                  *)
(***************************************************************************)
C20_DiamondUnderEachBranch == StoreTreeShowsEveryBranch /\ ChainTreeShowsEveryBranch


(***************************************************************************)
(* SpecLookup: a node table of up to MaxLookupNodes rows, their names      *)
(* taken from LookupNames and their rowids in any order, and one           *)
(* GetNodeByName or FindNodesByPattern call on it.                         *)
(***************************************************************************)
\* R under two packages, under a type, at the end and in the middle of longer
\* names, after an underscore, and a name without R
LookupNames == {<<"a", ".", "R">>, <<"a", "b", ".", "R">>, <<"a", ".", "b", ".", "R">>, <<"a", ".", "S", "R">>, <<"S", "R">>, <<"a", ".", "R", "S">>, <<"a", ".", "_", "R">>, <<"a", ".", "V">>}

\* short names in both cases, a qualified name, a package prefix, no name's
\* part, and patterns with the characters LIKE reads as wildcards: _ is a
\* character of Go identifiers, and the pattern is bound as it was typed
LookupInputs == {<<"R">>, <<"r">>, <<"S", "R">>, <<"b", ".", "R">>, <<"a", ".">>, <<"a", ".", "V">>, <<"Z">>, <<"_", "R">>, <<"a", "%", "R">>, <<"%">>}

\* the tables whose rows 1..n carry the names of the sequence
LookupTables ==
    UNION {{{[id |-> i, kind |-> "func", name |-> f[i], pkg |-> "p"] : i \in 1..n} :
               f \in {g \in [1..n -> LookupNames] : \A i, j \in 1..n : g[i] = g[j] => i = j}} :
           n \in 0..MaxLookupNodes}

InitLookup ==
    /\ nodes \in LookupTables
    /\ edges = {}
    /\ last = NoCall
    /\ cte = NoQuery
    /\ tree = NoTree
    /\ watch = NoWatch
    /\ proj = NoProj
    /\ report = NoReport

\* GetNodeByName as its caller sees it: the node, or the error of Scan
CallGetNodeByName ==
    /\ report.pc = "none"
    /\ \E name \in LookupInputs :
         \E r \in {GetNodeByName(nodes, name)} :
            report' = [NoReport EXCEPT !.op = "GetNodeByName", !.pc = "done", !.funcName = name,
                                       !.outcome = IF r.err THEN "error" ELSE "ok",
                                       !.target = r.node]
    /\ UNCHANGED <<nodes, edges, last, cte, tree, watch, proj>>

\* FindNodesByPattern as its caller sees it: the names of the slice, in order
CallFindNodesByPattern ==
    /\ report.pc = "none"
    /\ \E pattern \in LookupInputs :
         \E r \in {FindNodesByPattern(nodes, pattern)} :
            report' = [NoReport EXCEPT !.op = "FindNodesByPattern", !.pc = "done",
                                       !.funcName = pattern, !.outcome = "ok",
                                       !.candidates = [i \in 1..Len(r) |-> r[i].name]]
    /\ UNCHANGED <<nodes, edges, last, cte, tree, watch, proj>>

NextLookup == CallGetNodeByName \/ CallFindNodesByPattern

SpecLookup == InitLookup /\ [][NextLookup]_vars

(***************************************************************************)
(* C21: a lookup that nothing matches returns a normal empty result and    *)
(* not an error, GetNodeByName with a name no node has as well as          *)
(* FindNodesByPattern with a pattern no name contains.                     *)
(***************************************************************************)
C21_NoMatchIsEmptyNotError ==
    /\ (report.op = "GetNodeByName" /\ \A n \in nodes : n.name # report.funcName)
          => (report.outcome = "ok" /\ report.target = 0)
    /\ (report.op = "FindNodesByPattern" /\ PatternMatches = {})
          => (report.outcome = "ok" /\ report.candidates = <<>>)

\* the short name of a qualified name: what follows its last dot
ShortName(name) ==
    LET dots == {i \in 1..Len(name) : name[i] = "."}
    IN  SubSeq(name, SetMax(dots) + 1, Len(name))

\* the name is qualified and the pattern is its short name, up to ASCII case
IsShortName(name, pattern) ==
    /\ \E i \in 1..Len(name) : name[i] = "."
    /\ Len(ShortName(name)) = Len(pattern)
    /\ \A j \in 1..Len(pattern) : AsciiLower(ShortName(name)[j]) = AsciiLower(pattern[j])

EndsWith(name, pattern) ==
    /\ Len(pattern) <= Len(name)
    /\ \A j \in 1..Len(pattern) :
          AsciiLower(name[Len(name) - Len(pattern) + j]) = AsciiLower(pattern[j])

\* 1 for an exact short-name match, 2 for another name that ends with the
\* pattern, 3 for a name that merely contains it
MatchClass(name, pattern) ==
    IF IsShortName(name, pattern) THEN 1 ELSE IF EndsWith(name, pattern) THEN 2 ELSE 3

\* the list c is the names that contain p, each once, ranked by MatchClass
\* and, within a class, by length
RankedByMatchClass(c, p) ==
    /\ Range(c) = {n.name : n \in PatternMatches}
    /\ Len(c) = Cardinality(PatternMatches)
    /\ \A i, j \in 1..Len(c) : i < j =>
          \/ MatchClass(c[i], p) < MatchClass(c[j], p)
          \/ MatchClass(c[i], p) = MatchClass(c[j], p) /\ Len(c[i]) <= Len(c[j])

(***************************************************************************)
(* C23: FindNodesByPattern returns every node whose name contains the      *)
(* pattern, each once, the exact short-name matches before the other names *)
(* that end with the pattern and those before the names that merely        *)
(* contain it, and within each class no shorter name after a longer one.   *)
(* It fails for a pattern with a dot (b.R puts a.b.R, whose short name is  *)
(* R, before the shorter ab.R) and for a pattern with _ or %, which LIKE   *)
(* reads as wildcards (_R returns a.SR, which does not contain it).        *)
(***************************************************************************)
C23_RankedByMatchQuality ==
    report.op = "FindNodesByPattern" => RankedByMatchClass(report.candidates, report.funcName)

\* the pattern read as a LIKE pattern matches all of s: there is a way to
\* hand the characters of s to the characters of the pattern, f[j] being how
\* many of them pat[1..j] have taken, in which % takes any number, _ one, and
\* any other character the one that is equal to it up to ASCII case
MatchesLike(s, pat) ==
    \E f \in [1..Len(pat) -> 0..Len(s)] :
        /\ f[Len(pat)] = Len(s)
        /\ \A j \in 1..Len(pat) :
              LET before == IF j = 1 THEN 0 ELSE f[j - 1]
              IN  IF pat[j] = "%" THEN f[j] >= before
                  ELSE /\ f[j] = before + 1
                       /\ pat[j] = "_" \/ AsciiLower(s[f[j]]) = AsciiLower(pat[j])

\* some part of the name matches the pattern
HasMatch(name, pat) ==
    \E i \in 0..Len(name), k \in 0..Len(name) : i <= k /\ MatchesLike(SubSeq(name, i + 1, k), pat)

\* the end of the name matches the pattern
HasMatchAtEnd(name, pat) ==
    \E i \in 0..Len(name) : MatchesLike(SubSeq(name, i + 1, Len(name)), pat)

\* what follows one of the dots of the name matches the pattern
HasMatchAfterDot(name, pat) ==
    \E i \in 1..Len(name) : name[i] = "." /\ MatchesLike(SubSeq(name, i + 1, Len(name)), pat)

\* 1 for a name that ends with a dot and a match of the pattern, 2 for
\* another name that ends with a match, 3 for a name that has one elsewhere
LikeClass(name, pat) ==
    IF HasMatchAfterDot(name, pat) THEN 1 ELSE IF HasMatchAtEnd(name, pat) THEN 2 ELSE 3

LikeMatches == {n \in nodes : HasMatch(n.name, report.funcName)}

\* a pattern of letters only: no dot and none of the wildcards of LIKE
PlainPattern(pat) == \A j \in 1..Len(pat) : pat[j] \notin {".", "_", "%"}

(***************************************************************************)
(* C23, amended: FindNodesByPattern reads the pattern as a LIKE pattern    *)
(* (_ is any one character, % any run of characters, letters match         *)
(* regardless of ASCII case) and returns every node whose name has a part  *)
(* that matches it, each once; the names that end with a dot followed by a *)
(* match come before the other names that end with a match, and those      *)
(* before the names that have a match elsewhere, and within each class no  *)
(* shorter name comes after a longer one. For a pattern without dot, _ and *)
(* % this is the ranking by exact short-name match, ends with the pattern  *)
(* and contains the pattern, up to ASCII case.                             *)
(***************************************************************************)
C23_RankedByLikeQuality ==
    report.op = "FindNodesByPattern" =>
        LET c == report.candidates
            p == report.funcName
            class == [i \in 1..Len(c) |-> LikeClass(c[i], p)]
        IN  /\ Range(c) = {n.name : n \in LikeMatches}
            /\ Len(c) = Cardinality(LikeMatches)
            /\ \A i, j \in 1..Len(c) : i < j =>
                  \/ class[i] < class[j]
                  \/ class[i] = class[j] /\ Len(c[i]) <= Len(c[j])
            /\ PlainPattern(p) => RankedByMatchClass(c, p)

\* a pattern with the wildcard _ and three matches of three classes, the
\* first longer than the second and without the pattern in it
C23_Witness ==
    /\ report.op = "FindNodesByPattern"
    /\ "_" \in Range(report.funcName)
    /\ Len(report.candidates) = 3
    /\ LikeClass(report.candidates[1], report.funcName) = 1
    /\ LikeClass(report.candidates[2], report.funcName) = 2
    /\ LikeClass(report.candidates[3], report.funcName) = 3
    /\ Len(report.candidates[1]) > Len(report.candidates[2])
    /\ ~Contains(report.candidates[1], report.funcName)


(***************************************************************************)
(* internal/analyzer: BuildInterfaceGraph and BuildVarConstGraph.  The     *)
(* slices of Analyze() are taken in one fixed order.                       *)
(***************************************************************************)
\* "for _, x := range infos": a node per info, and the map from name to id
RECURSIVE InsertInfoNodes(_, _, _)
InsertInfoNodes(infos, N, ids) ==
    IF infos = {} THEN [nodes |-> N, ids |-> ids]
    ELSE LET x == CHOOSE y \in infos : \A z \in infos : y.order <= z.order
             r == InsertNode(N, x.kind, x.name, x.pkg)
         IN  InsertInfoNodes(infos \ {x}, r.nodes, {p \in ids : p[1] # x.name} \cup {<<x.name, r.id>>})

\* "for _, impl := range impls" and "for _, ref := range refs": an edge for
\* every pair whose two names are in the maps, until an insert fails
RECURSIVE InsertPairEdges(_, _, _, _, _, _)
InsertPairEdges(pairs, fromIDs, toIDs, kind, N, st) ==
    IF pairs = {} \/ st.err THEN st
    ELSE LET x == CHOOSE y \in pairs : \A z \in pairs : y.order <= z.order
         IN  IF ~MapHas(fromIDs, x.from) \/ ~MapHas(toIDs, x.to)
             THEN InsertPairEdges(pairs \ {x}, fromIDs, toIDs, kind, N, st)
             ELSE InsertPairEdges(pairs \ {x}, fromIDs, toIDs, kind, N,
                      InsertEdge(N, st.edges, MapGet(fromIDs, x.from), MapGet(toIDs, x.to), kind))

\* the implements edges run from the interface to the type
BuildInterfaceGraph_Reversed(N, E, interfaces, typInfos, impls) ==
    LET ifs == InsertInfoNodes(interfaces, N, {})
        tys == InsertInfoNodes(typInfos, ifs.nodes, {})
        rev == {[order |-> i.order, from |-> i.to, to |-> i.from] : i \in impls}
        st  == InsertPairEdges(rev, ifs.ids, tys.ids, "implements", tys.nodes, [edges |-> E, err |-> FALSE])
    IN  [nodes |-> tys.nodes, edges |-> st.edges, err |-> st.err]

\* BuildInterfaceGraph: interface nodes, struct nodes, then an implements
\* edge from the type to the interface of each implementation
BuildInterfaceGraph(N, E, interfaces, typInfos, impls) ==
    LET ifs == InsertInfoNodes(interfaces, N, {})
        tys == InsertInfoNodes(typInfos, ifs.nodes, {})
        st  == InsertPairEdges(impls, tys.ids, ifs.ids, "implements", tys.nodes, [edges |-> E, err |-> FALSE])
    IN  [nodes |-> tys.nodes, edges |-> st.edges, err |-> st.err]

\* BuildVarConstGraph: nothing without var/const; else their nodes, then a
\* references edge from the function to the var/const of each reference
BuildVarConstGraph(N, E, varConsts, refs, existingNodeMap) ==
    IF varConsts = {} THEN [nodes |-> N, edges |-> E, err |-> FALSE]
    ELSE LET vcs == InsertInfoNodes(varConsts, N, {})
             st  == InsertPairEdges(refs, existingNodeMap, vcs.ids, "references", vcs.nodes, [edges |-> E, err |-> FALSE])
         IN  [nodes |-> vcs.nodes, edges |-> st.edges, err |-> st.err]

\* the map handed to BuildVarConstGraph: the callable units of the store by
\* name
ExistingNodeMap(N) == {<<n.name, n.id>> : n \in {x \in N : x.kind = "func"}}

(***************************************************************************)
(* SpecIngest: a full ingestion of a project: Clear and Build, then        *)
(* BuildInterfaceGraph, then BuildVarConstGraph.                           *)
(***************************************************************************)
IngestCalls ==
    {[caller |-> FnA, callee |-> FnB, site |-> 1], [caller |-> FnA1, callee |-> FnB, site |-> 1], [caller |-> FnB, callee |-> FnA, site |-> 1]}

IngestInterfaces == {[order |-> 1, kind |-> "interface", name |-> "I", pkg |-> PkgA], [order |-> 2, kind |-> "interface", name |-> "J", pkg |-> PkgBA]}

IngestTypes == {[order |-> 1, kind |-> "struct", name |-> "T", pkg |-> PkgA]}

\* T implements I and J; U is a type Analyze() lists no info for
IngestImpls == {[order |-> 1, from |-> "T", to |-> "I"], [order |-> 2, from |-> "T", to |-> "J"], [order |-> 3, from |-> "U", to |-> "I"]}

IngestVarConsts == {[order |-> 1, kind |-> "var", name |-> "V", pkg |-> PkgA], [order |-> 2, kind |-> "const", name |-> "K", pkg |-> PkgBA]}

\* references from a function, from a closure and from a function of a
\* dependency
IngestRefs == {[order |-> 1, from |-> FnA, to |-> "V"], [order |-> 2, from |-> FnB, to |-> "K"], [order |-> 3, from |-> FnA1, to |-> "V"], [order |-> 4, from |-> FnPrintln, to |-> "K"]}

InitIngest ==
    /\ nodes = OpenedEmpty.nodes
    /\ edges = OpenedEmpty.edges
    /\ last = NoCall
    /\ cte = NoQuery
    /\ tree = NoTree
    /\ watch = NoWatch
    /\ report = NoReport
    /\ \E cs \in SUBSET IngestCalls, is \in SUBSET IngestInterfaces, ts \in SUBSET IngestTypes :
       \E ms \in SUBSET IngestImpls, vs \in SUBSET IngestVarConsts, rs \in SUBSET IngestRefs :
          /\ Cardinality(ms) <= MaxIngestPairs
          /\ Cardinality(rs) <= MaxIngestPairs
          /\ proj = [base |-> NoGraph, cg |-> [fns |-> {FnA, FnA1, FnB, FnPrintln}, calls |-> cs],
                     interfaces |-> is, types |-> ts, impls |-> ms, varConsts |-> vs, refs |-> rs]

\* db.Clear() and builder.Build(cg)
IngestBuild ==
    /\ last.op = "Open"
    /\ LET projectPkgs == {LoadedPkgs[i] : i \in 1..Len(LoadedPkgs)}
       IN  \E nodeOrder \in NodeOrders(proj.cg, projectPkgs, NilTargets),
              edgeOrder \in EdgeOrders(proj.cg, projectPkgs, NilTargets) :
               \E r \in {Build(proj.cg, projectPkgs, NilTargets, Clear(nodes, edges, "none").nodes,
                              Clear(nodes, edges, "none").edges, nodeOrder, edgeOrder)} :
                   /\ nodes' = r.nodes
                   /\ edges' = r.edges
                   /\ last' = [NoCall EXCEPT !.op = "Build", !.err = r.err]
    /\ UNCHANGED <<cte, tree, watch, proj, report>>

IngestInterfaceGraph ==
    /\ last.op = "Build"
    /\ \E r \in {BuildInterfaceGraph(nodes, edges, proj.interfaces, proj.types, proj.impls)} :
          /\ nodes' = r.nodes
          /\ edges' = r.edges
          /\ last' = [NoCall EXCEPT !.op = "BuildInterfaceGraph", !.err = r.err]
    /\ UNCHANGED <<cte, tree, watch, proj, report>>

IngestVarConstGraph ==
    /\ last.op = "BuildInterfaceGraph"
    /\ \E r \in {BuildVarConstGraph(nodes, edges, proj.varConsts, proj.refs, ExistingNodeMap(nodes))} :
          /\ nodes' = r.nodes
          /\ edges' = r.edges
          /\ last' = [NoCall EXCEPT !.op = "BuildVarConstGraph", !.err = r.err]
    /\ UNCHANGED <<cte, tree, watch, proj, report>>

NextIngest == IngestBuild \/ IngestInterfaceGraph \/ IngestVarConstGraph

SpecIngest == InitIngest /\ [][NextIngest]_vars

KindOfEnd(id) == (CHOOSE n \in nodes : n.id = id).kind

(***************************************************************************)
(* C22: in every stored graph each calls edge connects two function nodes, *)
(* each references edge goes from a function node to a variable or         *)
(* constant node, each implements edge goes from a struct node to an       *)
(* interface node, and no edge starts at a variable or constant node.      *)
(***************************************************************************)
C22_EdgeKindsMatchNodeKinds ==
    \A e \in edges :
        /\ e.from \in Ids(nodes) /\ e.to \in Ids(nodes)
        /\ e.kind = "calls" => (KindOfEnd(e.from) = "func" /\ KindOfEnd(e.to) = "func")
        /\ e.kind = "references" => (KindOfEnd(e.from) = "func" /\ KindOfEnd(e.to) \in {"var", "const"})
        /\ e.kind = "implements" => (KindOfEnd(e.from) = "struct" /\ KindOfEnd(e.to) = "interface")
        /\ KindOfEnd(e.from) \notin {"var", "const"}

\* a finished ingestion with edges of the three kinds, an implementation of
\* an unlisted type and a reference from a closure left out
C22_Witness ==
    /\ last.op = "BuildVarConstGraph"
    /\ \A k \in EdgeKinds : \E e \in edges : e.kind = k
    /\ \E i \in proj.impls : i.from = "U"
    /\ \E r \in proj.refs : r.from = FnA1
    /\ Cardinality({e \in edges : e.kind = "references"}) = 2


(***************************************************************************)
(* The node table with all its columns: InsertNode, GetNodeByID, scanNode. *)
(* signature and doc are nullable columns: a value of theirs is a text or  *)
(* SQL's NULL, as sql.NullString scans it.                                 *)
(***************************************************************************)
Text(s) == [Valid |-> TRUE, String |-> s]

\* InsertNode with its seven columns: every field of the node is bound as
\* it is, the empty string as an empty text
InsertNodeColumns(N, node) ==
    LET id == NextRowId(N)
    IN  [nodes |-> N \cup {[id |-> id, kind |-> node.Kind, name |-> node.Name, pkg |-> node.Package,
                            file |-> node.File, line |-> node.Line,
                            signature |-> Text(node.Signature), doc |-> Text(node.Doc)]},
         id |-> id]

\* scanNode leaves Doc as it is in a new graph.Node
scanNode_NoDoc(row) ==
    [ID |-> row.id, Kind |-> row.kind, Name |-> row.name, Package |-> row.pkg,
     File |-> row.file, Line |-> row.line,
     Signature |-> IF row.signature.Valid THEN row.signature.String ELSE "",
     Doc |-> ""]

\* scanNode: the columns into a graph.Node, NULL signature and doc as ""
scanNode(row) ==
    [ID |-> row.id, Kind |-> row.kind, Name |-> row.name, Package |-> row.pkg,
     File |-> row.file, Line |-> row.line,
     Signature |-> IF row.signature.Valid THEN row.signature.String ELSE "",
     Doc |-> IF row.doc.Valid THEN row.doc.String ELSE ""]

\* GetNodeByID: the row with the id through scanNode, sql.ErrNoRows without
GetNodeByID(N, id) ==
    IF id \notin Ids(N) THEN [err |-> TRUE, node |-> <<>>]
    ELSE [err |-> FALSE, node |-> scanNode(CHOOSE n \in N : n.id = id)]

(***************************************************************************)
(* SpecRoundTrip: a caller of the storage API that inserts nodes and       *)
(* edges, deletes by package, clears and reads nodes by id.                *)
(* report.inserted remembers, for each id InsertNode returned and whose    *)
(* row has not been deleted since, the node that was given.                *)
(***************************************************************************)
RtNodes ==
    [Kind : {"func"}, Name : {"f"}, Package : {"p", "q"}, File : {"a.go"}, Line : {7}, Signature : {"", "s"}, Doc : {"", "d"}]

InitRoundTrip ==
    /\ nodes = OpenedEmpty.nodes
    /\ edges = OpenedEmpty.edges
    /\ last = NoCall
    /\ cte = NoQuery
    /\ tree = NoTree
    /\ watch = NoWatch
    /\ proj = NoProj
    /\ report = NoReport

StillStored(inserted, N) == {x \in inserted : x.id \in Ids(N)}

RtInsertNode ==
    /\ NextRowId(nodes) <= MaxRowId
    /\ \E node \in RtNodes :
         \E r \in {InsertNodeColumns(nodes, node)} :
            /\ nodes' = r.nodes
            /\ report' = [NoReport EXCEPT !.op = "InsertNode", !.target = r.id, !.node = node,
                                          !.inserted = report.inserted \cup {[id |-> r.id, node |-> node]}]
    /\ UNCHANGED <<edges, last, cte, tree, watch, proj>>

RtInsertEdge ==
    /\ NextRowId(edges) < MaxRowId
    /\ \E from \in 1..MaxRowId, to \in 1..MaxRowId :
         \E r \in {InsertEdge(nodes, edges, from, to, "calls")} :
            /\ edges' = r.edges
            /\ report' = [NoReport EXCEPT !.op = "InsertEdge", !.inserted = report.inserted,
                                          !.outcome = IF r.err THEN "error" ELSE "ok"]
    /\ UNCHANGED <<nodes, last, cte, tree, watch, proj>>

RtDeleteNodesByPackage ==
    /\ nodes # {}
    /\ \E pkgs \in SUBSET {"p", "q"} :
         \E r \in {DeleteNodesByPackage(nodes, edges, pkgs, "none")} :
            /\ nodes' = r.nodes
            /\ edges' = r.edges
            /\ report' = [NoReport EXCEPT !.op = "DeleteNodesByPackage",
                                          !.inserted = StillStored(report.inserted, r.nodes)]
    /\ UNCHANGED <<last, cte, tree, watch, proj>>

RtGetNodeByID ==
    /\ \E id \in 1..MaxRowId :
         \E r \in {GetNodeByID(nodes, id)} :
            report' = [NoReport EXCEPT !.op = "GetNodeByID", !.target = id, !.node = r.node,
                                       !.outcome = IF r.err THEN "error" ELSE "ok",
                                       !.inserted = report.inserted]
    /\ UNCHANGED <<nodes, edges, last, cte, tree, watch, proj>>

NextRoundTrip == RtInsertNode \/ RtInsertEdge \/ RtDeleteNodesByPackage \/ RtGetNodeByID

SpecRoundTrip == InitRoundTrip /\ [][NextRoundTrip]_vars

\* kind, name, module, file, line, signature and doc of a graph.Node
Attributes(node) ==
    [Kind |-> node.Kind, Name |-> node.Name, Package |-> node.Package, File |-> node.File,
     Line |-> node.Line, Signature |-> node.Signature, Doc |-> node.Doc]

(***************************************************************************)
(* C24: GetNodeByID with an id that InsertNode returned gives back kind,   *)
(* name, package, file, line, signature and doc as they were inserted, at  *)
(* any time until the node is deleted, whatever other nodes and edges were *)
(* inserted or deleted in between.                                         *)
(***************************************************************************)
C24_GetByIdReturnsInserted ==
    report.op = "GetNodeByID" =>
        \A x \in report.inserted :
            x.id = report.target =>
                /\ report.outcome = "ok"
                /\ report.node.ID = x.id
                /\ Attributes(report.node) = x.node

\* a read of a node with a doc and no signature, after a later insert under
\* a reused id and with an edge stored
C24_Witness ==
    /\ report.op = "GetNodeByID"
    /\ report.outcome = "ok"
    /\ report.node.Doc = "d" /\ report.node.Signature = ""
    /\ Cardinality(report.inserted) = 2
    /\ \E x \in report.inserted : x.id = report.target /\ x.node = Attributes(report.node)
    /\ edges # {}


(***************************************************************************)
(* SpecKinds: a stored graph with edges of the three kinds between its     *)
(* nodes and one upstream or downstream query on it.                       *)
(***************************************************************************)
RECURSIVE NumberKindEdges(_, _)
NumberKindEdges(triples, nextId) ==
    IF triples = {} THEN {}
    ELSE LET key(t) == <<t[1], t[2], IF t[3] = "calls" THEN 1 ELSE IF t[3] = "implements" THEN 2 ELSE 3>>
             before(a, b) == \/ a[1] < b[1]
                             \/ a[1] = b[1] /\ a[2] < b[2]
                             \/ a[1] = b[1] /\ a[2] = b[2] /\ a[3] <= b[3]
             t == CHOOSE x \in triples : \A y \in triples : before(key(x), key(y))
         IN  {[id |-> nextId, from |-> t[1], to |-> t[2], kind |-> t[3]]}
                 \cup NumberKindEdges(triples \ {t}, nextId + 1)

InitKinds ==
    /\ nodes = {QNode(i) : i \in QNodeIds}
    /\ \E S \in SUBSET (QPairs \X EdgeKinds) :
          /\ Cardinality(S) <= MaxQEdges
          /\ edges = NumberKindEdges({<<t[1][1], t[1][2], t[2]>> : t \in S}, 1)
    /\ last = NoCall
    /\ cte = NoQuery
    /\ tree = NoTree
    /\ watch = NoWatch
    /\ proj = NoProj
    /\ report = NoReport

SpecKinds == InitKinds /\ [][NextQuery]_vars

\* x reaches y along a path of between 1 and d calls edges
ReachesByCalls(x, y, d) ==
    \E k \in 1..d :
        \E p \in [1..(k + 1) -> Ids(nodes)] :
            /\ p[1] = x /\ p[k + 1] = y
            /\ \A i \in 1..k : \E e \in edges : e.kind = "calls" /\ e.from = p[i] /\ e.to = p[i + 1]

(***************************************************************************)
(* C25: for every depth d >= 1, GetUpstreamCallers(id, d) is the set of    *)
(* nodes that reach id along a path of 1 to d calls edges and              *)
(* GetDownstreamCallees(id, d) the set of nodes id reaches along such a    *)
(* path; implements and references edges are never followed.               *)
(***************************************************************************)
C25_DepthBoundedCallsClosure ==
    (cte.pc = "done" /\ cte.maxDepth >= 1) =>
        cte.result = IF cte.dir = "up"
                     THEN {x \in Ids(nodes) : ReachesByCalls(x, cte.id, cte.maxDepth)}
                     ELSE {x \in Ids(nodes) : ReachesByCalls(cte.id, x, cte.maxDepth)}

\* an upstream result of depth 1 that leaves out a node two calls away and a
\* node with an edge of another kind to the target
C25_Witness ==
    /\ cte.pc = "done" /\ cte.dir = "up" /\ cte.maxDepth = 1
    /\ cte.result # {}
    /\ \E x \in Ids(nodes) \ cte.result : ReachesByCalls(x, cte.id, 2)
    /\ \E e \in edges : e.kind # "calls" /\ e.to = cte.id /\ e.from \notin cte.result

(***************************************************************************)
(* runAnalysis, a statement at a time. A run is the record                 *)
(*   pc       "load" (LoadPackages to storage.Open), "clear" and           *)
(*            "clearNodes" (the two statements of db.Clear), "nodes" and   *)
(*            "edges" (the second and third pass of Build)                 *)
(*   cg       the call graph it has built from the sources                 *)
(*   todo     the functions the second pass has yet to insert              *)
(*   nodeMap  b.nodeMap                                                    *)
(*   work     the calls the third pass has yet to look at                  *)
(*   edgeSet  the edgeSet of the third pass                                *)
(* No statement runs in a transaction, so each commits by itself, and the  *)
(* statements of two runs, or of a run and a reader, interleave. What a    *)
(* run does between two statements touches only its own variables and is   *)
(* part of the step of the statement before. `fail` is the database or the *)
(* loader returning an error for a reason outside the model (a busy        *)
(* database, an I/O error, sources that do not compile); on an error       *)
(* runAnalysis returns at once.                                            *)
(***************************************************************************)
ProjectPkgs == {LoadedPkgs[i] : i \in 1..Len(LoadedPkgs)}

\* the calls the third pass meets: node.Out of every function, in the order of
\* the map iteration
RECURSIVE EdgeWork(_, _)
EdgeWork(cg, edgeOrder) ==
    IF edgeOrder = <<>> THEN <<>>
    ELSE LET out == Out(cg, Head(edgeOrder))
         IN  [i \in 1..Len(out) |-> [caller |-> Head(edgeOrder), callee |-> out[i].callee]]
                 \o EdgeWork(cg, Tail(edgeOrder))

\* the third pass passes over a call: an end without a node, a self-loop, or a
\* pair it has inserted already
SkipsCall(run, call) ==
    LET closureParent == ClosureParents(run.cg, ProjectPkgs)
        callerName == resolveToParent(closureParent, call.caller)
        calleeName == resolveToParent(closureParent, call.callee)
    IN  \/ ~MapHas(run.nodeMap, callerName)
        \/ ~MapHas(run.nodeMap, calleeName)
        \/ MapGet(run.nodeMap, callerName) = MapGet(run.nodeMap, calleeName)
        \/ <<MapGet(run.nodeMap, callerName), MapGet(run.nodeMap, calleeName)>> \in run.edgeSet

\* the third pass goes on to the next call it has an INSERT for
RECURSIVE ToNextInsert(_)
ToNextInsert(run) ==
    IF run.work # <<>> /\ SkipsCall(run, Head(run.work))
    THEN ToNextInsert([run EXCEPT !.work = Tail(run.work)])
    ELSE run

\* a run that has nothing left to do but return nil
Finished == [pc |-> "edges", cg |-> NoGraph, todo |-> <<>>, nodeMap |-> {}, work |-> <<>>,
             edgeSet |-> {}]

\* the run at its next statement: the second pass goes over to the third when
\* it has no function left
AtNextStatement(run) ==
    LET r == IF run.pc = "nodes" /\ run.todo = <<>>
             THEN ToNextInsert([run EXCEPT !.pc = "edges"])
             ELSE IF run.pc = "edges" THEN ToNextInsert(run) ELSE run
    IN  IF r.pc = "edges" /\ r.work = <<>> THEN Finished ELSE r

\* runAnalysis up to db.Clear: the sources are loaded and the call graph built
runAnalysisLoad(run, cg, nodeOrder, edgeOrder, fail) ==
    [returns |-> fail,
     run |-> [run EXCEPT !.pc = "clear", !.cg = cg, !.todo = nodeOrder,
                         !.work = EdgeWork(cg, edgeOrder)]]

\* the INSERT of the third pass for the call at the head of run.work
BuildEdgeStep(run, N, E, fail) ==
    LET closureParent == ClosureParents(run.cg, ProjectPkgs)
        fromID == MapGet(run.nodeMap, resolveToParent(closureParent, Head(run.work).caller))
        toID == MapGet(run.nodeMap, resolveToParent(closureParent, Head(run.work).callee))
        r == InsertEdge(N, E, fromID, toID, "calls")
    IN  IF fail \/ r.err THEN [returns |-> TRUE, run |-> run, nodes |-> N, edges |-> E]
        ELSE [returns |-> FALSE,
              run |-> AtNextStatement([run EXCEPT !.work = Tail(run.work),
                                                  !.edgeSet = run.edgeSet \cup {<<fromID, toID>>}]),
              nodes |-> N, edges |-> r.edges]

\* runAnalysis from db.Clear on: its next statement. DELETE FROM nodes fails
\* while an edge refers to a node.
runAnalysisStep(run, N, E, fail) ==
    IF run.pc = "clear"
    THEN IF fail THEN [returns |-> TRUE, run |-> run, nodes |-> N, edges |-> E]
         ELSE [returns |-> FALSE, run |-> [run EXCEPT !.pc = "clearNodes"],
               nodes |-> N, edges |-> {}]
    ELSE IF run.pc = "clearNodes"
    THEN IF fail \/ E # {} THEN [returns |-> TRUE, run |-> run, nodes |-> N, edges |-> E]
         ELSE [returns |-> FALSE, run |-> AtNextStatement([run EXCEPT !.pc = "nodes"]),
               nodes |-> {}, edges |-> E]
    ELSE IF run.pc = "nodes"
    THEN IF fail THEN [returns |-> TRUE, run |-> run, nodes |-> N, edges |-> E]
         ELSE [returns |-> FALSE,
               run |-> AtNextStatement(
                           [run EXCEPT !.todo = Tail(run.todo),
                                       !.nodeMap = run.nodeMap \cup {<<Head(run.todo), NextRowId(N)>>}]),
               nodes |-> InsertNode(N, "func", Head(run.todo), Head(run.todo).pkg).nodes,
               edges |-> E]
    ELSE BuildEdgeStep(run, N, E, fail)

\* one run of w.runs goes from `old` to `new`
ReplaceRun(w, old, new) == [w EXCEPT !.runs = (w.runs (-) SetToBag({old})) (+) SetToBag({new})]

(***************************************************************************)
(* SpecWatch: the watch command after its initial analysis and Start, with *)
(* events, the clock, timers and analysis goroutines interleaved freely.   *)
(* The project has the functions A and B, and A calls B or not; an         *)
(* accepted event comes with a change of the sources.                      *)
(*   proj.cg   the call graph of the sources as they are now               *)
(***************************************************************************)
WatchGraphs ==
    {[fns |-> fs, calls |-> cs] :
        fs \in {{FnA, FnB}}, cs \in SUBSET {[caller |-> FnA, callee |-> FnB, site |-> 1]}}

InitWatch ==
    /\ last = NoCall
    /\ cte = NoQuery
    /\ tree = NoTree
    /\ watch = NoWatch
    /\ report = NoReport
    /\ \E g \in WatchGraphs :
         \E nodeOrder \in NodeOrders(g, ProjectPkgs, NilTargets),
            edgeOrder \in EdgeOrders(g, ProjectPkgs, NilTargets) :
             \E r \in {Build(g, ProjectPkgs, NilTargets, {}, {}, nodeOrder, edgeOrder)} :
                 /\ nodes = r.nodes
                 /\ edges = r.edges
                 /\ proj = [base |-> g, cg |-> g]

FsEvent ==
    /\ watch.events < MaxEvents
    /\ \E f \in WatchedFiles, op \in FsOps, g \in WatchGraphs :
          /\ watch' = handleEvent(watch, f, op)
          /\ proj' = IF Accepted(f, op) THEN [proj EXCEPT !.cg = g] ELSE proj
    /\ UNCHANGED <<nodes, edges, last, cte, tree, report>>

Tick ==
    /\ watch.timer = "armed"
    /\ watch.sinceReset < DebounceTicks
    /\ watch' = [watch EXCEPT !.sinceReset = watch.sinceReset + 1]
    /\ UNCHANGED <<nodes, edges, last, cte, tree, proj, report>>

TimerFire ==
    /\ watch.timer = "armed"
    /\ watch.sinceReset >= DebounceTicks
    /\ watch' = TimerFires(watch)
    /\ UNCHANGED <<nodes, edges, last, cte, tree, proj, report>>

TriggerAnalysis ==
    /\ watch.locking > 0
    /\ watch' = triggerAnalysis(watch)
    /\ UNCHANGED <<nodes, edges, last, cte, tree, proj, report>>

\* a runAnalysis loads the sources as they are now, or fails to and returns
AnalysisLoad ==
    /\ \E run \in BagToSet(watch.runs), fail \in BOOLEAN :
          /\ run.pc = "load"
          /\ \E nodeOrder \in NodeOrders(proj.cg, ProjectPkgs, NilTargets),
                edgeOrder \in EdgeOrders(proj.cg, ProjectPkgs, NilTargets) :
                 \E r \in {runAnalysisLoad(run, proj.cg, nodeOrder, edgeOrder, fail)} :
                     watch' = IF r.returns THEN AnalysisReturns(watch, run)
                              ELSE ReplaceRun(watch, run, r.run)
    /\ UNCHANGED <<nodes, edges, last, cte, tree, proj, report>>

\* a runAnalysis makes its next statement on the database; when the statement
\* fails it returns
AnalysisStep ==
    /\ \E run \in BagToSet(watch.runs), fail \in BOOLEAN :
          /\ run.pc # "load"
          /\ run # Finished
          /\ \E r \in {runAnalysisStep(run, nodes, edges, fail)} :
                /\ nodes' = r.nodes
                /\ edges' = r.edges
                /\ watch' = IF r.returns THEN AnalysisReturns(watch, run)
                            ELSE ReplaceRun(watch, run, r.run)
    /\ UNCHANGED <<last, cte, tree, proj, report>>

\* a runAnalysis has made its last statement: it returns nil, and
\* triggerAnalysis with it
AnalysisDone ==
    /\ Finished \in BagToSet(watch.runs)
    /\ watch' = AnalysisReturns(watch, Finished)
    /\ UNCHANGED <<nodes, edges, last, cte, tree, proj, report>>

NextWatch ==
    \/ FsEvent
    \/ Tick
    \/ TimerFire
    \/ TriggerAnalysis
    \/ AnalysisLoad
    \/ AnalysisStep
    \/ AnalysisDone

SpecWatch == InitWatch /\ [][NextWatch]_vars


(***************************************************************************)
(* C2: at most one reindex (triggerAnalysis -> runAnalysis) is in flight   *)
(* at any time; a burst whose debounce delay runs out during a rebuild     *)
(* starts no second rebuild until the running one has finished.            *)
(***************************************************************************)
C2_AtMostOneReindex == watch.running <= 1

(***************************************************************************)
(* C13: a burst of accepted events, each less than the debounce delay      *)
(* after the one before, gives one reindex, and a reindex starts only when *)
(* no accepted event has arrived for a full debounce delay: whenever a     *)
(* triggerAnalysis goes on to runAnalysis, the last accepted event is at   *)
(* least DebounceTicks old.                                                *)
(***************************************************************************)
C13_ReindexAfterQuiet ==
    [][ watch'.running > watch.running => watch.sinceReset >= DebounceTicks ]_vars

(***************************************************************************)
(* The watcher's life from Start to Stop. Stop closes w.done and the       *)
(* fsnotify watcher and returns; it does not touch debounceTimer. The      *)
(* event loop's select may still take an event that is ready at the same   *)
(* time as the closed done channel, so between Stop's return and the       *)
(* loop's exit handleEvent can run again.                                  *)
(*   last.op   "Stop" once Stop has returned, "Exited" once eventLoop has  *)
(*             returned as well                                            *)
(***************************************************************************)
Stopped == last.op \in {"Stop", "Exited"}

\* Stop: close(w.done), fsWatcher.Close()
StopWatcher ==
    /\ last.op = NoCall.op
    /\ last' = [NoCall EXCEPT !.op = "Stop"]
    /\ UNCHANGED <<nodes, edges, cte, tree, watch, proj, report>>

\* eventLoop: case <-w.done, or a closed Events channel: return
LoopExit ==
    /\ last.op = "Stop"
    /\ last' = [NoCall EXCEPT !.op = "Exited"]
    /\ UNCHANGED <<nodes, edges, cte, tree, watch, proj, report>>

\* eventLoop: case event := <-w.fsWatcher.Events, while the loop is alive
LoopEvent == last.op # "Exited" /\ FsEvent

NextWatchStop ==
    \/ LoopEvent
    \/ StopWatcher
    \/ LoopExit
    \/ Tick
    \/ TimerFire
    \/ TriggerAnalysis
    \/ AnalysisLoad
    \/ AnalysisStep
    \/ AnalysisDone

(***************************************************************************)
(* SpecWatchStop: the runtime fires a timer whose delay has passed, and a  *)
(* goroutine that waits for pendingMu gets it: weak fairness for the       *)
(* clock, the timer and triggerAnalysis. Events and Stop come from outside *)
(* and are under no fairness, and no property here needs a runAnalysis to  *)
(* go on, so its steps are under none either.                              *)
(***************************************************************************)
SpecWatchStop ==
    /\ InitWatch
    /\ [][NextWatchStop]_vars
    /\ WF_vars(Tick)
    /\ WF_vars(TimerFire)
    /\ WF_vars(TriggerAnalysis)

(***************************************************************************)
(* C26: every accepted change event is eventually followed by a reindex    *)
(* that starts after the event was recorded, whatever the interleaving of  *)
(* events, timer resets and timer expiry: a recorded file stays in         *)
(* pendingFiles until a triggerAnalysis takes it, the step that takes it   *)
(* goes on to runAnalysis, and every recorded file is taken in the end.    *)
(***************************************************************************)
C26_EveryEventReindexed ==
    /\ (watch.pendingFiles # {}) ~> (watch.pendingFiles = {})
    /\ [][ \A f \in watch.pendingFiles :
              f \notin watch'.pendingFiles => watch'.running = watch.running + 1 ]_vars

\* an accepted event recorded while a timer that has already fired still waits
\* for the mutex: the reset raced with the expiry, and a new timer is set
C26_Witness ==
    /\ watch.pendingFiles # {}
    /\ watch.locking > 0
    /\ watch.timer = "armed"
    /\ watch.sinceReset = 0

(***************************************************************************)
(* C28: once Stop has returned the watcher starts no further reindex; a    *)
(* debounce timer still pending at Stop never gets as far as runAnalysis.  *)
(***************************************************************************)
C28_NoReindexAfterStop ==
    [][ Stopped => watch'.running <= watch.running ]_vars

(***************************************************************************)
(* A rebuild with a reader beside it: one runAnalysis has been started on  *)
(* a store that holds the graph of an earlier build, and a reader (another *)
(* crag process or another connection on the same file) runs its SELECT    *)
(* between any two statements of the run.                                  *)
(*   proj.base     the call graph the stored graph was built from          *)
(*   proj.cg       the call graph of the sources now                       *)
(*   proj.old      the store before the rebuild                            *)
(*   proj.queries  the queries made so far                                 *)
(***************************************************************************)
RebuildFns == {FnA, FnB, FnC}
RebuildCalls ==
    {[caller |-> FnA, callee |-> FnB, site |-> 1],
     [caller |-> FnB, callee |-> FnC, site |-> 1],
     [caller |-> FnA, callee |-> FnC, site |-> 2]}
RebuildGraphs == {[fns |-> fs, calls |-> cs] : fs \in {RebuildFns}, cs \in SUBSET RebuildCalls}

\* GetAllFunctions: SELECT ... FROM nodes WHERE kind = 'func'
GetAllFunctions(N) == {n \in N : n.kind = "func"}

\* GetAllEdges: SELECT ... FROM edges
GetAllEdges(E) == E

InitRebuild ==
    /\ last = NoCall
    /\ cte = NoQuery
    /\ tree = NoTree
    /\ watch = [NoWatch EXCEPT !.running = 1, !.runs = SetToBag({NewRun})]
    /\ report = NoReport
    /\ \E base \in RebuildGraphs, cg \in RebuildGraphs :
         /\ base.calls # {}
         /\ \E oldNodes \in NodeOrders(base, ProjectPkgs, NilTargets),
               oldEdges \in EdgeOrders(base, ProjectPkgs, NilTargets) :
                \E r \in {Build(base, ProjectPkgs, NilTargets, {}, {}, oldNodes, oldEdges)} :
                    /\ nodes = r.nodes
                    /\ edges = r.edges
                    /\ proj = [base |-> base, cg |-> cg, queries |-> 0,
                               old |-> [nodes |-> r.nodes, edges |-> r.edges]]

\* a reader lists the functions
QueryAllFunctions ==
    /\ proj.queries < MaxRebuildQueries
    /\ report' = [NoReport EXCEPT !.op = "GetAllFunctions", !.seen = GetAllFunctions(nodes)]
    /\ proj' = [proj EXCEPT !.queries = proj.queries + 1]
    /\ UNCHANGED <<nodes, edges, last, cte, tree, watch>>

\* a reader lists the edges
QueryAllEdges ==
    /\ proj.queries < MaxRebuildQueries
    /\ report' = [NoReport EXCEPT !.op = "GetAllEdges", !.seen = GetAllEdges(edges)]
    /\ proj' = [proj EXCEPT !.queries = proj.queries + 1]
    /\ UNCHANGED <<nodes, edges, last, cte, tree, watch>>

NextRebuild ==
    \/ AnalysisLoad
    \/ AnalysisStep
    \/ AnalysisDone
    \/ QueryAllFunctions
    \/ QueryAllEdges

SpecRebuild == InitRebuild /\ [][NextRebuild]_vars

\* the stores a rebuild of the sources can leave when it runs to its end, one
\* for each order of the map iterations
RebuiltStores ==
    {Build(proj.cg, ProjectPkgs, NilTargets, {}, {}, nodeOrder, edgeOrder) :
        nodeOrder \in NodeOrders(proj.cg, ProjectPkgs, NilTargets),
        edgeOrder \in EdgeOrders(proj.cg, ProjectPkgs, NilTargets)}

(***************************************************************************)
(* C27: a query made while a rebuild is in progress sees the whole graph   *)
(* of before the rebuild or the whole graph of after it: the functions it  *)
(* lists are those of the old store or those of a rebuilt one, and so are  *)
(* the edges; never an empty or half-filled table.                         *)
(***************************************************************************)
C27_QuerySeesOldOrNew ==
    /\ report.op = "GetAllFunctions" =>
          report.seen \in {GetAllFunctions(proj.old.nodes)}
                              \cup {GetAllFunctions(s.nodes) : s \in RebuiltStores}
    /\ report.op = "GetAllEdges" =>
          report.seen \in {GetAllEdges(proj.old.edges)}
                              \cup {GetAllEdges(s.edges) : s \in RebuiltStores}

(***************************************************************************)
(* The conversion of changed directories to package paths, by itself. The  *)
(* loaded packages are some packages of module m, in any order: the root   *)
(* package m, m/a, m/ba, m/a/u and m/u. The changed directories are        *)
(* directories of loaded packages, as GetGitChanges writes them ("./" for  *)
(* the root, "./" + directory otherwise).                                  *)
(*   proj.pkgs         the loaded packages                                 *)
(*   proj.changedDirs  ChangedPackages of GetGitChanges                    *)
(*   report.seen       fullPkgPaths                                        *)
(***************************************************************************)
PkgRoot == ModulePath
PkgAU == ModulePath \o <<"/", "a", "/", "u">>
PkgU == ModulePath \o <<"/", "u">>
ConvertPkgs == {PkgRoot, PkgA, PkgBA, PkgAU, PkgU}

\* pkgDir of GetGitChanges for a file of the package
ChangedDirOf(pkgPath) ==
    IF pkgPath = ModulePath THEN <<".", "/">> ELSE <<".", "/">> \o PkgDir(pkgPath)

InitConvert ==
    /\ nodes = OpenedEmpty.nodes
    /\ edges = OpenedEmpty.edges
    /\ last = NoCall
    /\ cte = NoQuery
    /\ tree = NoTree
    /\ watch = NoWatch
    /\ report = NoReport
    /\ \E S \in SUBSET ConvertPkgs :
         /\ S # {}
         /\ \E pkgs \in Perms(S), changed \in SUBSET S :
              /\ changed # {}
              /\ proj = [base |-> NoGraph, cg |-> NoGraph, pkgs |-> pkgs,
                         changedDirs |-> {ChangedDirOf(q) : q \in changed}]

\* analyzeCmd -i, from the git changes to changedPackages = fullPkgPaths
ConvertChangedPackages ==
    /\ report.op = NoReport.op
    /\ report' = [NoReport EXCEPT !.op = "fullPkgPaths",
                                  !.seen = ChangedPackages(proj.pkgs, TRUE, FALSE, proj.changedDirs)]
    /\ UNCHANGED <<nodes, edges, last, cte, tree, watch, proj>>

NextConvert == ConvertChangedPackages

SpecConvert == InitConvert /\ [][NextConvert]_vars

(***************************************************************************)
(* C29: in incremental mode every changed directory is mapped to the       *)
(* loaded package that lies in it and to no other, so the packages that    *)
(* are deleted and re-ingested are exactly the loaded packages with a      *)
(* changed file.                                                           *)
(***************************************************************************)
C29_ChangedDirsToTheirPackages ==
    report.op = "fullPkgPaths" =>
        report.seen = {q \in Range(proj.pkgs) : ChangedDirOf(q) \in proj.changedDirs}

(***************************************************************************)
(* internal/storage: GetTopRiskyFunctions. One SELECT joins every func     *)
(* node with the calls edges that end in it, counts them per node, sorts   *)
(* by the count, largest first, and cuts the list with LIMIT; SQLite takes *)
(* a negative LIMIT as no limit. Rows with equal counts come in an order   *)
(* the statement does not fix.                                             *)
(***************************************************************************)
FuncNodes(N) == {n \in N : n.kind = "func"}

\* COUNT(e.from_id) of one group of the LEFT JOIN
CallerCount(E, n) == Cardinality({e \in E : e.to = n.id /\ e.kind = "calls"})

\* the orders ORDER BY caller_count DESC may give the func nodes
TopOrders(N, E) ==
    {s \in Perms(FuncNodes(N)) :
        \A i \in 1..(Len(s) - 1) : CallerCount(E, s[i]) >= CallerCount(E, s[i + 1])}

\* the RiskScore made of one row
TopRow(E, n) ==
    [Node |-> n, DirectCallers |-> CallerCount(E, n), TotalCallers |-> CallerCount(E, n),
     MaxDepth |-> 0, RiskLevel |-> CalculateRiskLevelFast(CallerCount(E, n))]

\* GetTopRiskyFunctions without the LIMIT
GetTopRiskyFunctions_NoLimit(E, limit, order) == [i \in 1..Len(order) |-> TopRow(E, order[i])]

\* GetTopRiskyFunctions, for one of the orders of the sort
GetTopRiskyFunctions(E, limit, order) ==
    LET k == IF limit < 0 \/ limit > Len(order) THEN Len(order) ELSE limit
    IN  [i \in 1..k |-> TopRow(E, order[i])]

(***************************************************************************)
(* SpecTop: a store with the functions 1, 2 and 3 and the variable 4.      *)
(* Function 3 calls function 1 at c1 call sites and function 2 at c2, it   *)
(* references the variable, and it may have an edge of another kind to     *)
(* function 1. One GetTopRiskyFunctions call with a limit from -1 to       *)
(* MaxTopLimit.                                                            *)
(***************************************************************************)
TopNodes == {RiskNode(1), RiskNode(2), RiskNode(3), [id |-> 4, kind |-> "var", name |-> 4, pkg |-> "p"]}

TopEdges(c1, c2, other) ==
    {[id |-> i, from |-> 3, to |-> 1, kind |-> "calls"] : i \in 1..c1}
    \cup {[id |-> c1 + i, from |-> 3, to |-> 2, kind |-> "calls"] : i \in 1..c2}
    \cup {[id |-> c1 + c2 + 1, from |-> 3, to |-> 4, kind |-> "references"]}
    \cup (IF other THEN {[id |-> c1 + c2 + 2, from |-> 3, to |-> 1, kind |-> "implements"]}
          ELSE {})

TopLimits == (-1)..MaxTopLimit

InitTop ==
    /\ nodes = TopNodes
    /\ \E c1 \in 0..MaxDirect, c2 \in 0..MaxDirect, other \in BOOLEAN :
          edges = TopEdges(c1, c2, other)
    /\ last = NoCall
    /\ cte = NoQuery
    /\ tree = NoTree
    /\ watch = NoWatch
    /\ proj = NoProj
    /\ report = NoReport

CallGetTopRiskyFunctions ==
    /\ report.op = NoReport.op
    /\ \E limit \in TopLimits, order \in TopOrders(nodes, edges) :
          report' = [NoReport EXCEPT !.op = "GetTopRiskyFunctions", !.pc = "done",
                                     !.limit = limit,
                                     !.candidates = GetTopRiskyFunctions(edges, limit, order)]
    /\ UNCHANGED <<nodes, edges, last, cte, tree, watch, proj>>

NextTop == CallGetTopRiskyFunctions

SpecTop == InitTop /\ [][NextTop]_vars

\* the rows are functions, in non-increasing order of their count, and count
\* and level of each are those of GetRiskScore for the same node
TopRowsAgreeWithRiskScore ==
    /\ \A i \in 1..Len(report.candidates) : report.candidates[i].Node.kind = "func"
    /\ \A i \in 1..(Len(report.candidates) - 1) :
          report.candidates[i].DirectCallers >= report.candidates[i + 1].DirectCallers
    /\ \A i \in 1..Len(report.candidates) :
          LET score == GetRiskScore(nodes, edges, report.candidates[i].Node.id)
          IN  /\ score.outcome = "score"
              /\ report.candidates[i].DirectCallers = score.DirectCount
              /\ report.candidates[i].RiskLevel = score.RiskLevel

(***************************************************************************)
(* C30 as stated: topRisky(limit) returns at most limit nodes, whatever    *)
(* the limit, all of them functions, in non-increasing order of direct     *)
(* caller count, each with the count and level riskOf gives for it.        *)
(***************************************************************************)
C30_AtMostLimitForEveryLimit ==
    report.op = "GetTopRiskyFunctions" =>
        /\ Len(report.candidates) <= report.limit
        /\ TopRowsAgreeWithRiskScore

(***************************************************************************)
(* C30, amended: for a limit of 0 or more topRisky(limit) returns at most  *)
(* limit nodes, and for a negative limit every function node; in both      *)
(* cases all returned nodes are functions, in non-increasing order of      *)
(* direct caller count, each with the count and level riskOf gives for it. *)
(***************************************************************************)
C30_TopRiskyWithinLimit ==
    report.op = "GetTopRiskyFunctions" =>
        /\ report.limit >= 0 => Len(report.candidates) <= report.limit
        /\ report.limit < 0 => Len(report.candidates) = Cardinality(FuncNodes(nodes))
        /\ TopRowsAgreeWithRiskScore

\* a list cut by its limit: two of the three functions, the first critical and
\* the second of a lower level, while the store also holds a variable and an
\* edge to function 1 that is no call
C30_Witness ==
    /\ report.op = "GetTopRiskyFunctions"
    /\ report.limit = 2
    /\ Len(report.candidates) = 2
    /\ report.candidates[1].RiskLevel = "critical"
    /\ report.candidates[2].RiskLevel = "medium"
    /\ \E e \in edges : e.kind = "implements" /\ e.to = report.candidates[1].Node.id

====
